---- MODULE Spec2Model ----
(***************************************************************************)
(* Shared caching and admission-control layer of the Airtable gateway:     *)
(* CacheManager (src/src/cache.py) and AirtableRateLimiter /               *)
(* check_rate_limits (src/src/rate_limiter.py), both running against one   *)
(* shared Redis store.                                                     *)
(*                                                                         *)
(* Time is counted in ticks of 1/TicksPerSecond second.  Python strings    *)
(* that are used as keys, identifiers and glob patterns are sequences of   *)
(* tokens (a token stands for a run of characters holding neither ':' nor  *)
(* '*'; ":" and "*" are tokens of their own).                              *)
(***************************************************************************)
EXTENDS Integers, Sequences, FiniteSets, TLC

VARIABLES
    now,       \* the wall clock, in ticks (time.time())
    storeUp,   \* TRUE while the Redis server answers; FALSE: every call raises
    db,        \* the Redis keyspace: key -> entry (a sorted set or a string)
    client,    \* cache_manager.client: None or the connection
    redis,     \* self.redis of each AirtableRateLimiter instance
    logLevel,  \* effective logging level (LOG_LEVEL)
    pc,        \* per worker: the await it is suspended at
    loc,       \* per worker: the local variables of the call in progress
    hist,      \* the calls that have returned, with what they returned
    ncalls,    \* number of calls started
    nticks,    \* number of clock advances
    nouts,     \* number of store outages
    preload,   \* the traffic that preceded the initial state
    cres,      \* the cache operation that returned last, and the one before it
    wlog       \* per cache key: the last successful set that was not deleted

vars == <<now, storeUp, db, client, redis, logLevel, pc, loc, hist, ncalls,
          nticks, nouts, preload, cres, wlog>>

cacheVars == <<client, cres, wlog>>

(***************************************************************************)
(* Bounds of the model.                                                    *)
(***************************************************************************)
TicksPerSecond == 6
StartTime == 400
MaxCalls == 3
MaxFailCalls == 2
MaxTicks == 1
MaxOutages == 1
MaxCacheOps == 2
MaxCacheTicks == 2
MaxRequests == 2

(***************************************************************************)
(* Program constants.                                                      *)
(***************************************************************************)
BASE_LIMIT == 5
BASE_WINDOW == 1
GLOBAL_LIMIT == 100
GLOBAL_WINDOW == 60

None == "None"
Conn == "conn"
NoExpiry == 0 - 1

Procs == {1, 2}
Bases == {<<"B1">>}
ApiKeys == {<<"K1">>}
Insts == {"rate_limiter", "limiter"}
LogLevels == {"INFO", "ERROR"}

Secs(s) == s * TicksPerSecond

(***************************************************************************)
(* Python helpers.                                                         *)
(***************************************************************************)
\* str(now): injective on the clock values
Str(t) == ToString(t)

\* int(x) for x given in ticks: whole seconds, truncated toward zero
IntSeconds(x) ==
    IF x >= 0 THEN x \div TicksPerSecond ELSE -((-x) \div TicksPerSecond)

RECURSIVE Concat(_)
Concat(s) == IF s = <<>> THEN "" ELSE Head(s) \o Concat(Tail(s))

\* hashlib.sha256(api_key.encode()).hexdigest()[:12]: one opaque token
Sha256Hex12(s) == << "sha256_" \o Concat(s) >>

\* logger.isEnabledFor(logging.WARNING)
WarningEnabled == logLevel \in {"DEBUG", "INFO", "WARNING"}

\* ':'.join(str(arg) for arg in args), the arguments being strings
RECURSIVE Join(_)
Join(args) ==
    IF args = <<>> THEN <<>>
    ELSE IF Len(args) = 1 THEN Head(args)
    ELSE Head(args) \o <<":">> \o Join(Tail(args))

\* timedelta values in ticks; the ttl argument is a timedelta or None
NoTtl == [given |-> FALSE, ticks |-> 0]
Timedelta(ticks) == [given |-> TRUE, ticks |-> ticks]
Hours(h) == Secs(h * 3600)
Minutes(m) == Secs(m * 60)

(***************************************************************************)
(* Python values and JSON documents, both as trees of nodes: t is the type *)
(* of the node, s its scalar text, items its children.  A dict is a        *)
(* sequence of items <<key, value>>; a JSON object is a sequence of        *)
(* members whose s is the member name.                                     *)
(***************************************************************************)
Node(t, s, items) == [t |-> t, s |-> s, items |-> items]

PyNone == Node("none", "", <<>>)
PyBool(b) == Node("bool", IF b THEN "True" ELSE "False", <<>>)
PyInt(n) == Node("int", ToString(n), <<>>)
PyStr(x) == Node("str", x, <<>>)
PyList(xs) == Node("list", "", xs)
PyTuple(xs) == Node("tuple", "", xs)
PyItem(k, v) == Node("item", "", <<k, v>>)
PyDict(items) == Node("dict", "", items)
\* a datetime, given by its str()
PyDatetime(x) == Node("datetime", x, <<>>)

JError == Node("TypeError", "", <<>>)
NoText == Node("nil", "", <<>>)

\* the name json.dumps gives to a dict key; other key types raise TypeError
KeyText(k) ==
    CASE k.t \in {"str", "int"} -> k.s
      [] k.t = "bool" -> (IF k.s = "True" THEN "true" ELSE "false")
      [] k.t = "none" -> "null"
      [] OTHER -> ""

KeyOk(k) == k.t \in {"str", "int", "bool", "none"}

\* json.dumps(value, default=str)
RECURSIVE Dumps(_)
Dumps(v) ==
    CASE v.t = "none" -> Node("jnull", "", <<>>)
      [] v.t = "bool" -> Node("jbool", IF v.s = "True" THEN "true" ELSE "false", <<>>)
      [] v.t = "int" -> Node("jnum", v.s, <<>>)
      [] v.t = "str" -> Node("jstr", v.s, <<>>)
      [] v.t \in {"list", "tuple"} ->
            LET xs == [i \in 1..Len(v.items) |-> Dumps(v.items[i])]
            IN  IF \E i \in 1..Len(xs) : xs[i] = JError
                THEN JError ELSE Node("jarr", "", xs)
      [] v.t = "dict" ->
            LET xs == [i \in 1..Len(v.items) |->
                         LET k == v.items[i].items[1]
                             j == Dumps(v.items[i].items[2])
                         IN  IF ~KeyOk(k) \/ j = JError THEN JError
                             ELSE Node("jmember", KeyText(k), <<j>>)]
            IN  IF \E i \in 1..Len(xs) : xs[i] = JError
                THEN JError ELSE Node("jobj", "", xs)
      [] OTHER -> Node("jstr", v.s, <<>>)

\* json.loads(cached)
RECURSIVE Loads(_)
Loads(j) ==
    CASE j.t = "jnull" -> PyNone
      [] j.t = "jbool" -> PyBool(j.s = "true")
      [] j.t = "jnum" -> Node("int", j.s, <<>>)
      [] j.t = "jstr" -> PyStr(j.s)
      [] j.t = "jarr" -> PyList([i \in 1..Len(j.items) |-> Loads(j.items[i])])
      [] j.t = "jobj" ->
            PyDict([i \in 1..Len(j.items) |->
                      PyItem(PyStr(j.items[i].s), Loads(j.items[i].items[1]))])
      [] OTHER -> PyNone

\* bool(cached) for the reply of GET: a str, or None when the key is absent
TruthyAfterDecoding(text) ==
    /\ text # NoText
    /\ text.t \notin {"jnull"}
    /\ ~(text.t = "jbool" /\ text.s = "false")
    /\ ~(text.t = "jnum" /\ text.s = "0")
    /\ ~(text.t = "jstr" /\ text.s = "")
    /\ ~(text.t \in {"jarr", "jobj"} /\ text.items = <<>>)

Truthy(text) == text # NoText

(***************************************************************************)
(* The Redis commands the code issues.  A sorted set is a set of           *)
(* <<member, score>> pairs with one pair per member.                       *)
(***************************************************************************)
Exists(d, key) == key \in DOMAIN d

ZsetOf(d, key) == IF Exists(d, key) /\ d[key].type = "zset" THEN d[key].z ELSE {}

ExpiryOf(d, key) == IF Exists(d, key) THEN d[key].exp ELSE NoExpiry

\* a key whose sorted set becomes empty is removed
PutZset(d, key, z, exp) ==
    IF z = {}
    THEN [k \in DOMAIN d \ {key} |-> d[k]]
    ELSE [k \in DOMAIN d \cup {key} |->
            IF k = key
            THEN [type |-> "zset", z |-> z, val |-> NoText, exp |-> exp]
            ELSE d[k]]

ZRemRangeByScore(z, lo, hi) == {e \in z : ~(lo <= e[2] /\ e[2] <= hi)}

ZCard(z) == Cardinality(z)

ZAdd(z, member, score) == {e \in z : e[1] # member} \cup {<<member, score>>}

ZRem(z, member) == {e \in z : e[1] # member}

\* ZRANGE key 0 0 WITHSCORES: the entries of lowest score (one per call)
ZRangeFirst(z) == {e \in z : \A f \in z : e[2] <= f[2]}

NeverExpired(e, t) == FALSE

\* a key is gone once the clock has passed its expiry
Expired(e, t) == e.exp # NoExpiry /\ t > e.exp

Purge(d, t) == [k \in {k \in DOMAIN d : ~Expired(d[k], t)} |-> d[k]]

\* GET key: the text, or nil; WRONGTYPE when the key holds no string
WrongType(d, key) == Exists(d, key) /\ d[key].type # "string"

RedisGet(d, key) == IF Exists(d, key) THEN d[key].val ELSE NoText

\* SETEX key seconds text: seconds must be positive
SetexOk(seconds) == seconds > 0

\* SET key text KEEPTTL in the place of SETEX
SetExKeepTtl(d, key, seconds, text, t) ==
    [k \in DOMAIN d \cup {key} |->
        IF k = key
        THEN [type |-> "string", z |-> {}, val |-> text,
              exp |-> IF Exists(d, key) THEN d[key].exp ELSE t + Secs(seconds)]
        ELSE d[k]]

SetEx(d, key, seconds, text, t) ==
    [k \in DOMAIN d \cup {key} |->
        IF k = key
        THEN [type |-> "string", z |-> {}, val |-> text, exp |-> t + Secs(seconds)]
        ELSE d[k]]

DelNothing(d, keys) == d

\* DEL key [key ...]: the number of keys that were removed
Del(d, keys) == [k \in DOMAIN d \ keys |-> d[k]]

DelCount(d, keys) == Cardinality(keys \cap DOMAIN d)

\* glob matching of KEYS for patterns made of literals and '*'
RECURSIVE GlobMatch(_, _)
GlobMatch(pat, str) ==
    IF pat = <<>> THEN str = <<>>
    ELSE IF Head(pat) = "*"
    THEN GlobMatch(Tail(pat), str) \/ (str # <<>> /\ GlobMatch(pat, Tail(str)))
    ELSE str # <<>> /\ Head(str) = Head(pat) /\ GlobMatch(Tail(pat), Tail(str))

RedisKeysAll(d, pattern) == DOMAIN d

RedisKeys(d, pattern) == {k \in DOMAIN d : GlobMatch(pattern, k)}

(***************************************************************************)
(* AirtableRateLimiter                                                     *)
(***************************************************************************)
\* self.prefix; its first eight characters are the namespace token of the
\* cache manager
Prefix == <<"airtable", "_rate_limit">>

\* AirtableRateLimiter.__init__: redis_client or cache_manager.client
CtorRedis(redis_client, cm_client) ==
    IF redis_client # None THEN redis_client ELSE cm_client

\* AirtableRateLimiter._make_key
RlKey(identifier) == Prefix \o <<":">> \o identifier

BaseIdent(base_id) == <<"base", ":">> \o base_id
GlobalIdent(api_key) == <<"global", ":">> \o Sha256Hex12(api_key)

TierIdent(tier, base_id, api_key) ==
    IF tier = "base" THEN BaseIdent(base_id) ELSE GlobalIdent(api_key)
TierLimit(tier) == IF tier = "base" THEN BASE_LIMIT ELSE GLOBAL_LIMIT
TierWindow(tier) == IF tier = "base" THEN BASE_WINDOW ELSE GLOBAL_WINDOW

\* a limiter that fails closed
FailClosed(limit, window_seconds, t) ==
    [allowed |-> FALSE, remaining |-> 0,
     reset_time |-> t + Secs(window_seconds), retry_after |-> window_seconds,
     limit |-> limit, window_seconds |-> window_seconds]

\* the decision returned when Redis is absent or a step raised (fail open)
FailOpen(limit, window_seconds, t) ==
    [allowed |-> TRUE, remaining |-> limit - 1,
     reset_time |-> t + Secs(window_seconds), retry_after |-> 0,
     limit |-> limit, window_seconds |-> window_seconds]

\* the decision of the allowed branch
Allowed(limit, window_seconds, tnow, current_requests) ==
    [allowed |-> TRUE, remaining |-> limit - current_requests - 1,
     reset_time |-> tnow + Secs(window_seconds), retry_after |-> 0,
     limit |-> limit, window_seconds |-> window_seconds]

\* reset_time of the denial branch, from the result of zrange
ResetTime(oldest, window_seconds, tnow) ==
    IF oldest # {}
    THEN (CHOOSE e \in oldest : TRUE)[2] + Secs(window_seconds)
    ELSE tnow + Secs(window_seconds)

\* the decision of the denial branch
Denied(limit, window_seconds, tnow, reset_time) ==
    [allowed |-> FALSE, remaining |-> 0,
     reset_time |-> reset_time, retry_after |-> IntSeconds(reset_time - tnow),
     limit |-> limit, window_seconds |-> window_seconds]

\* the pipeline of _sliding_window_check, executed by the store in one step
\* at store time t: zremrangebyscore, zcard, zadd, expire
\* an eviction that spares the entry of score now - window_seconds
PipeEvictOlder(z, tnow, window_seconds) ==
    ZRemRangeByScore(z, 0, tnow - Secs(window_seconds) - 1)

PipeEvictTwoWindows(z, tnow, window_seconds) ==
    ZRemRangeByScore(z, 0, tnow - 2 * Secs(window_seconds))

PipeEvict(z, tnow, window_seconds) ==
    ZRemRangeByScore(z, 0, tnow - Secs(window_seconds))

PipeDbNoExpire(d, key, tnow, window_seconds, t) ==
    PutZset(d, key,
            ZAdd(PipeEvict(ZsetOf(d, key), tnow, window_seconds), Str(tnow), tnow),
            ExpiryOf(d, key))

PipeDb(d, key, tnow, window_seconds, t) ==
    PutZset(d, key,
            ZAdd(PipeEvict(ZsetOf(d, key), tnow, window_seconds), Str(tnow), tnow),
            t + Secs(window_seconds))

PipeCount(d, key, tnow, window_seconds) ==
    ZCard(PipeEvict(ZsetOf(d, key), tnow, window_seconds))

\* the compensating delete: zrem(key, str(now)); the expiry is kept
ZremDb(d, key, tnow) ==
    PutZset(d, key, ZRem(ZsetOf(d, key), Str(tnow)), ExpiryOf(d, key))

(***************************************************************************)
(* Workers.  A worker runs one call at a time; it is suspended only at the *)
(* awaits of the code (pipe.execute, zrem, zrange).  A step is described   *)
(* by the worker's next position, its locals and the calls that returned.  *)
(***************************************************************************)
\* the outcome of the upstream call of a request: ok and the value read
UpNone == [ok |-> FALSE, val |-> PyNone]

Loc0 ==
    [op |-> "none", inst |-> "limiter", tier |-> "base", base |-> <<"B1">>,
     key |-> <<"K1">>, tnow |-> 0, timely |-> FALSE, cur |-> 0 - 1,
     newest |-> 0 - 1,
     gfull |-> FALSE, gres |-> {}, gpath |-> "none",
     bfull |-> FALSE, gtnow |-> 0 - 1,
     pattern |-> <<>>, keys |-> {}, seen |-> {},
     h |-> "none", table |-> <<>>, arg |-> <<>>, up |-> UpNone,
     checked |-> FALSE, start |-> 0, full |-> "none", todo |-> <<>>,
     own |-> {}, snap |-> {}, removed |-> {}, reach |-> TRUE, req |-> 0,
     before |-> {}, after |-> {}, done |-> 0, piped |-> 0 - 1,
     exp |-> NoExpiry,
     ckey |-> <<>>, val |-> PyNone, text |-> NoText, seconds |-> 0,
     held |-> {}]

IdentOf(l) == TierIdent(l.tier, l.base, l.key)
KeyOf(l) == RlKey(IdentOf(l))
LimitOf(l) == TierLimit(l.tier)
WindowOf(l) == TierWindow(l.tier)

\* what a returned _sliding_window_check leaves in the history
SwcRecord(l, path, res) ==
    [kind |-> "swc", inst |-> l.inst, tier |-> l.tier, ident |-> IdentOf(l),
     tnow |-> l.tnow, timely |-> l.timely, cur |-> l.cur, path |-> path,
     crl |-> (l.op \in {"crl", "handler"}),
     newest |-> l.newest, res |-> res,
     before |-> l.before, after |-> l.after, done |-> l.done,
     piped |-> l.piped, exp |-> l.exp, held |-> l.held]

\* what a returned check_rate_limits leaves in the history
CrlRecord(l, allowed, limit_type, baseInvoked, gpath, bpath) ==
    [kind |-> "crl", base |-> l.base, key |-> l.key, tnow |-> l.tnow,
     allowed |-> allowed, limit_type |-> limit_type,
     baseInvoked |-> baseInvoked, gfull |-> l.gfull,
     gpath |-> gpath, bpath |-> bpath,
     bfull |-> l.bfull,
     gkept |-> /\ gpath = "allowed"
               /\ \E e \in ZsetOf(db, RlKey(GlobalIdent(l.key))) :
                      e[2] = l.gtnow]

(***************************************************************************)
(* The request handlers of main.py, from the return of their rate-limit    *)
(* check to their next await of the store.  A handler is suspended only at *)
(* the store calls of the cache manager (h_get, h_set, h_keys, h_del,      *)
(* h_delete); the upstream client is called synchronously, and its outcome *)
(* for the request is l.up.                                                *)
(***************************************************************************)
\* the glob invalidate_pattern hands to KEYS
CachePatternNoColon(pattern) == <<"airtable">> \o pattern

CachePattern(pattern) == <<"airtable", ":">> \o pattern

\* CacheManager._make_key
CacheMakeKey(key_type, args) == <<"airtable", ":", key_type, ":">> \o Join(args)

ReadHandlers == {"list_bases", "get_base_schema", "list_records"}
MutateHandlers ==
    {"create_record", "update_record", "delete_record", "create_records_batch"}
WebSchemaHandlers ==
    {"web_create_table", "web_update_table", "web_create_field",
     "web_update_field", "web_delete_field"}
WebHandlers ==
    {"web_list_bases", "web_create_base", "web_get_base_schema"}
        \cup WebSchemaHandlers

\* the handlers that await check_airtable_limits
HasCheck(h) == h \in ReadHandlers \cup MutateHandlers

\* the handlers that look into the cache before they call upstream
LooksUp(h) == h \in ReadHandlers \cup {"web_get_base_schema"}

\* the cache entry a handler reads and writes through
EntryOf(l) ==
    CASE l.h = "list_bases" -> [type |-> "bases", args |-> <<>>]
      [] l.h = "get_base_schema" -> [type |-> "schema", args |-> <<l.base>>]
      [] l.h = "web_get_base_schema" ->
            [type |-> "schema", args |-> << <<"web_">> \o l.base >>]
      [] OTHER -> [type |-> "records", args |-> <<l.base, l.table, l.arg>>]

\* the cache calls a handler makes after its upstream call has succeeded
CleanupOf(l) ==
    CASE l.h \in MutateHandlers ->
            \* invalidate_table(base_id, table_id)
            << [op |-> "inv", type |-> "", args |-> <<>>,
                pattern |-> <<"records", ":">> \o l.base \o <<":">> \o l.table
                              \o <<":", "*">>],
               [op |-> "inv", type |-> "", args |-> <<>>,
                pattern |-> <<"record", ":">> \o l.base \o <<":">> \o l.table
                              \o <<":", "*">>] >>
      [] l.h = "web_create_base" ->
            << [op |-> "inv", type |-> "", args |-> <<>>,
                pattern |-> <<"bases">>] >>
      [] l.h \in WebSchemaHandlers ->
            << [op |-> "del", type |-> "schema", args |-> <<l.base>>,
                pattern |-> <<>>],
               [op |-> "del", type |-> "schema",
                args |-> << <<"web_">> \o l.base >>, pattern |-> <<>>] >>
      [] OTHER -> <<>>

NoHeaders ==
    [limit |-> 0 - 1, remaining |-> 0 - 1, reset |-> 0 - 1,
     retry_after |-> 0 - 1, type |-> "none"]

\* the headers of the HTTPException of check_airtable_limits
Headers(res, limit_type) ==
    [limit |-> res.limit, remaining |-> res.remaining,
     reset |-> IntSeconds(res.reset_time), retry_after |-> res.retry_after,
     type |-> limit_type]

\* the upstream call of a request, and as which of the upstream calls so
\* far it was made (seq)
UpRecord(l) ==
    [kind |-> "up", h |-> l.h, base |-> l.base, table |-> l.table,
     arg |-> l.arg, checked |-> l.checked, start |-> l.start, at |-> now,
     req |-> l.req,
     seq |-> Cardinality({e \in hist : e.rec.kind = "up"}) + 1]

\* the entries of d that were in the snapshot and are still as they were; a
\* key the handler has removed holds a new entry, if any
Stale(l, d) == {x \in l.snap : x[1] \in DOMAIN d /\ d[x[1]] = x[2]}

\* the response of a request, over the store d it leaves
Respond(l, status, source, val, wrote, hdr, d, out) ==
    [pc |-> "idle", loc |-> Loc0,
     out |-> out \cup
             {[kind |-> "resp", h |-> l.h, base |-> l.base, table |-> l.table,
               arg |-> l.arg, status |-> status, source |-> source,
               val |-> val, wrote |-> wrote, hdr |-> hdr,
               checked |-> l.checked, full |-> l.full, reach |-> l.reach,
               stale |-> {x[1] : x \in Stale(l, d)} \ l.removed,
               removed |-> l.removed,
               stamped |->
                   [t \in {"global", "base"} |->
                       \E x \in ZsetOf(d, RlKey(TierIdent(t, l.base, l.key))) :
                           x[2] >= l.start],
               start |-> l.start, at |-> now, req |-> l.req]}]

\* the status of the HTTPException a failed upstream call ends in
UpError == 500

\* the next cache call of the cleanup, or the response; without client every
\* cache call returns at once
Clean(l, d, out) ==
    IF l.todo = <<>> \/ client = None
    THEN Respond(l, 200, "upstream", PyNone, FALSE, NoHeaders, d, out)
    ELSE [pc |-> IF Head(l.todo).op = "inv" THEN "h_keys" ELSE "h_delete",
          loc |-> l, out |-> out]

\* the upstream read after a cache miss, and the write-through
Fetch(l, out) ==
    IF ~l.up.ok
    THEN Respond(l, UpError, "none", PyNone, FALSE, NoHeaders, db,
                 out \cup {UpRecord(l)})
    ELSE IF ~LooksUp(l.h) \/ client = None
    THEN Respond(l, 200, "upstream", l.up.val, FALSE, NoHeaders, db,
                 out \cup {UpRecord(l)})
    ELSE [pc |-> "h_set", loc |-> l, out |-> out \cup {UpRecord(l)}]

\* the upstream write, and the cleanup of the cache
Mutate(l, snap, out) ==
    IF ~l.up.ok
    THEN Respond(l, UpError, "none", PyNone, FALSE, NoHeaders, db,
                 out \cup {UpRecord(l)})
    ELSE Clean([l EXCEPT !.todo = CleanupOf(l), !.snap = snap], db,
               out \cup {UpRecord(l)})

\* the entries of d under the keys of K, as <<key, entry>> pairs
Snapshot(d, K) == {<<k, d[k]>> : k \in K \cap DOMAIN d}

\* the body of a handler, K being the keys of the entries of its table
Body(l, K, out) ==
    IF LooksUp(l.h)
    THEN IF client = None THEN Fetch(l, out)
         ELSE [pc |-> "h_get", loc |-> l, out |-> out]
    ELSE IF l.h = "web_list_bases" THEN Fetch(l, out)
    ELSE Mutate(l, Snapshot(db, K), out)

\* check_airtable_limits after check_rate_limits has returned: the
\* logger.warning call with keyword arguments and the HTTPException, or the
\* body of the handler
AfterCheck(l, allowed, limit_type, res, K, out) ==
    IF allowed THEN Body([l EXCEPT !.checked = TRUE], K, out)
    ELSE IF WarningEnabled
    THEN Respond(l, 500, "none", PyNone, FALSE, NoHeaders, db, out)
    ELSE Respond(l, 429, "none", PyNone, FALSE, Headers(res, limit_type), db,
                 out)

\* check_rate_limits after its global check was allowed and its base check
\* returned res; or a direct tier check returning res
Finish(l, path, res, out) ==
    LET out2 == out \cup {SwcRecord(l, path, res)} \cup
                IF l.op \in {"crl", "handler"}
                THEN {CrlRecord(l, res.allowed,
                                IF res.allowed THEN "none" ELSE "base", TRUE,
                                l.gpath, path)}
                ELSE {}
    IN  IF l.op = "handler"
        THEN AfterCheck(l, res.allowed, "base", res, l.own, out2)
        ELSE [pc |-> "idle", loc |-> Loc0, out |-> out2]

\* _sliding_window_check up to its first await: the client test, the key and
\* the clock read
Enter(l, out) ==
    IF redis[l.inst] = None
    THEN Finish([l EXCEPT !.tnow = now], "noclient",
                FailOpen(LimitOf(l), WindowOf(l), now), out)
    ELSE [pc |-> "pipe", loc |-> [l EXCEPT !.tnow = now],
          out |-> out]

\* the return of _sliding_window_check into its caller
Ret(l, path, res) ==
    IF l.op \in {"crl", "handler"} /\ l.tier = "global"
    THEN IF ~res.allowed
         THEN IF l.op = "handler"
              THEN AfterCheck(l, FALSE, "global", res, l.own,
                              {SwcRecord(l, path, res),
                               CrlRecord(l, FALSE, "global", FALSE, path, "none")})
              ELSE [pc |-> "idle", loc |-> Loc0,
                    out |-> {SwcRecord(l, path, res),
                             CrlRecord(l, FALSE, "global", FALSE, path, "none")}]
         ELSE Enter([l EXCEPT !.tier = "base", !.gres = {res}, !.gpath = path,
                             !.gtnow = l.tnow,
                             !.cur = 0 - 1, !.newest = 0 - 1, !.timely = FALSE],
                    {SwcRecord(l, path, res)})
    ELSE Finish(l, path, res, {})

\* check_global_limit / check_rate_limits with a client-less limiter: the
\* global check returns at once
Begin(l) ==
    IF redis[l.inst] = None
    THEN Ret([l EXCEPT !.tnow = now], "noclient",
             FailOpen(LimitOf(l), WindowOf(l), now))
    ELSE Enter(l, {})

\* the history is a bag: a record that is already there is counted
RECURSIVE Log(_, _)
Log(h, out) ==
    IF out = {} THEN h
    ELSE LET r == CHOOSE x \in out : TRUE
             n == Cardinality({e \in h : e.rec = r})
         IN Log(h \cup {[rec |-> r, dup |-> n]}, out \ {r})

Apply(p, step) ==
    /\ pc' = [pc EXCEPT ![p] = step.pc]
    /\ loc' = [loc EXCEPT ![p] = step.loc]
    /\ hist' = Log(hist, step.out)

\* number of entries of a window that a check at time t would count
Unexpired(d, key, window_seconds, t) ==
    Cardinality({e \in ZsetOf(d, key) : e[2] > t - Secs(window_seconds)})

(***************************************************************************)
(* Operations                                                              *)
(***************************************************************************)
\* workers are interchangeable: a request goes to the first idle worker
Dispatch(p) == pc[p] = "idle" /\ \A q \in Procs : q < p => pc[q] # "idle"

\* rate_limiter.check_base_limit(base_id) / check_global_limit(api_key) on
\* one of the limiter instances
CallTier(p, inst, tier, base_id, api_key) ==
    /\ Dispatch(p)
    /\ ncalls' = ncalls + 1
    /\ Apply(p, Begin([Loc0 EXCEPT !.op = "tier", !.inst = inst, !.tier = tier,
                                   !.base = base_id, !.key = api_key]))
    /\ UNCHANGED <<now, storeUp, db, cacheVars, redis, logLevel, nticks, nouts,
                   preload>>

\* check_rate_limits(base_id, api_key): the module-level rate_limiter
CallCheckRateLimits(p, base_id, api_key) ==
    /\ Dispatch(p)
    /\ ncalls' = ncalls + 1
    /\ Apply(p, Begin([Loc0 EXCEPT !.op = "crl", !.inst = "rate_limiter",
                                   !.tier = "global", !.base = base_id,
                                   !.key = api_key,
                                   !.gfull =
                                       Unexpired(db, RlKey(GlobalIdent(api_key)),
                                                 GLOBAL_WINDOW, now)
                                         >= GLOBAL_LIMIT,
                                   !.bfull =
                                       Unexpired(db, RlKey(BaseIdent(base_id)),
                                                 BASE_WINDOW, now)
                                         >= BASE_LIMIT]))
    /\ UNCHANGED <<now, storeUp, db, cacheVars, redis, logLevel, nticks, nouts,
                   preload>>

MaxScore(z) == IF z = {} THEN 0 - 1 ELSE (CHOOSE e \in z : \A f \in z : f[2] <= e[2])[2]

\* await pipe.execute(), and the test of current_requests that follows
Pipeline(p) ==
    /\ pc[p] = "pipe"
    /\ LET l == loc[p]
           cur == PipeCount(db, KeyOf(l), l.tnow, WindowOf(l))
           l2 == [l EXCEPT !.cur = cur, !.timely = (now = l.tnow),
                           !.newest = MaxScore(ZsetOf(db, KeyOf(l))),
                           !.before = PipeEvict(ZsetOf(db, KeyOf(l)), l.tnow,
                                                WindowOf(l)),
                           !.piped = now,
                           !.held = ZsetOf(db, KeyOf(l)),
                           !.exp = ExpiryOf(PipeDb(db, KeyOf(l), l.tnow,
                                                   WindowOf(l), now), KeyOf(l))]
       IN IF ~storeUp
          THEN /\ Apply(p, Ret(l, "store_error",
                               FailOpen(LimitOf(l), WindowOf(l), now)))
               /\ db' = db
          ELSE /\ db' = PipeDb(db, KeyOf(l), l.tnow, WindowOf(l), now)
               /\ IF cur >= LimitOf(l)
                  THEN Apply(p, [pc |-> "zrem", loc |-> l2,
                                 out |-> {}])
                  ELSE Apply(p, Ret(l2, "allowed",
                                    Allowed(LimitOf(l), WindowOf(l), l.tnow, cur)))
    /\ UNCHANGED <<now, storeUp, cacheVars, redis, logLevel, ncalls, nticks, nouts,
                   preload>>

\* await self.redis.zrem(key, str(now))
Zrem(p) ==
    /\ pc[p] = "zrem"
    /\ LET l == loc[p]
       IN IF ~storeUp
          THEN /\ Apply(p, Ret(l, "store_error",
                               FailOpen(LimitOf(l), WindowOf(l), now)))
               /\ db' = db
          ELSE /\ db' = ZremDb(db, KeyOf(l), l.tnow)
               /\ Apply(p, [pc |-> "zrange", loc |-> l,
                            out |-> {}])
    /\ UNCHANGED <<now, storeUp, cacheVars, redis, logLevel, ncalls, nticks, nouts,
                   preload>>

\* await self.redis.zrange(key, 0, 0, withscores=True), reset_time, the
\* logger.warning call with keyword arguments, and the denial
Zrange(p) ==
    /\ pc[p] = "zrange"
    /\ LET l == loc[p]
       IN IF ~storeUp
          THEN Apply(p, Ret(l, "store_error",
                            FailOpen(LimitOf(l), WindowOf(l), now)))
          ELSE IF WarningEnabled
          THEN Apply(p, Ret(l, "log_error",
                            FailOpen(LimitOf(l), WindowOf(l), now)))
          ELSE Apply(p, Ret([l EXCEPT !.after = ZsetOf(db, KeyOf(l)),
                                      !.done = now], "denied",
                            Denied(LimitOf(l), WindowOf(l), l.tnow,
                                   ResetTime(ZRangeFirst(ZsetOf(db, KeyOf(l))),
                                             WindowOf(l), l.tnow))))
    /\ UNCHANGED <<now, storeUp, db, cacheVars, redis, logLevel, ncalls, nticks,
                   nouts, preload>>

\* the result of a reset_limits call, d0 being the store it found at its
\* last store call and d the store it leaves
ResetRecord(l, path, count, d0, d) ==
    [kind |-> "reset", inst |-> l.inst, ident |-> l.arg, path |-> path,
     count |-> count, seen |-> l.seen, pre |-> DOMAIN d0,
     removed |-> DOMAIN d0 \ DOMAIN d,
     frame |-> (\A k \in DOMAIN d : k \in DOMAIN d0 /\ d[k] = d0[k])]

\* AirtableRateLimiter.reset_limits up to the reply of KEYS
ResetLimits(p, inst, identifier) ==
    /\ Dispatch(p)
    /\ ncalls' = ncalls + 1
    /\ LET pattern == Prefix \o <<":", "*">> \o identifier \o <<"*">>
           keys == RedisKeys(db, pattern)
           l == [Loc0 EXCEPT !.op = "reset", !.inst = inst, !.arg = identifier,
                             !.pattern = pattern, !.seen = DOMAIN db]
       IN  IF redis[inst] = None
           THEN Apply(p, [pc |-> "idle", loc |-> Loc0,
                          out |-> {ResetRecord(l, "noclient", 0, db, db)}])
           ELSE IF ~storeUp
           THEN Apply(p, [pc |-> "idle", loc |-> Loc0,
                          out |-> {ResetRecord(l, "store_error", 0, db, db)}])
           ELSE IF keys = {}
           THEN Apply(p, [pc |-> "idle", loc |-> Loc0,
                          out |-> {ResetRecord(l, "nokeys", 0, db, db)}])
           ELSE Apply(p, [pc |-> "r_del", loc |-> [l EXCEPT !.keys = keys],
                          out |-> {}])
    /\ UNCHANGED <<now, storeUp, db, cacheVars, redis, logLevel, nticks, nouts,
                   preload>>

\* AirtableRateLimiter.reset_limits from the reply of KEYS on: DEL *keys
ResetDel(p) ==
    /\ pc[p] = "r_del"
    /\ LET l == loc[p]
           d == IF storeUp THEN Del(db, l.keys) ELSE db
       IN  /\ db' = d
           /\ Apply(p, [pc |-> "idle", loc |-> Loc0,
                        out |-> {ResetRecord(l,
                                             IF storeUp THEN "deleted"
                                             ELSE "store_error",
                                             IF storeUp THEN DelCount(db, l.keys)
                                             ELSE 0, db, d)}])
    /\ UNCHANGED <<now, storeUp, cacheVars, redis, logLevel, ncalls, nticks,
                   nouts, preload>>

(***************************************************************************)
(* Environment                                                             *)
(***************************************************************************)
\* the clock advances by d ticks; the store drops the keys that expired
Tick(d) ==
    /\ nticks' = nticks + 1
    /\ now' = now + d
    /\ db' = Purge(db, now + d)
    /\ UNCHANGED <<storeUp, cacheVars, redis, logLevel, pc, loc, hist, ncalls,
                   nouts, preload>>

\* the Backing Store becomes unreachable
StoreDown ==
    /\ storeUp
    /\ nouts < MaxOutages
    /\ nouts' = nouts + 1
    /\ storeUp' = FALSE
    /\ UNCHANGED <<now, db, cacheVars, redis, logLevel, pc, loc, hist, ncalls,
                   nticks, preload>>

\* the Backing Store is reachable again
StoreBack ==
    /\ ~storeUp
    /\ storeUp' = TRUE
    /\ UNCHANGED <<now, db, cacheVars, redis, logLevel, pc, loc, hist, ncalls,
                   nticks, nouts, preload>>

(***************************************************************************)
(* CacheManager.  get, set and delete await the store once and are one     *)
(* step each; invalidate_pattern awaits it twice (keys, then delete).      *)
(* cres is the outcome of the operation that returned last: its result     *)
(* (val for get, ok for set and delete, count for invalidate_pattern),     *)
(* whether get found the key (hit), whether the client was absent or a     *)
(* store call raised (fail), whether the store changed, and the operation  *)
(* before it (prev); the client handle and the reachability of the store   *)
(* when it returned (conn, up); the keys the store held when the operation *)
(* looked at it (seen) and when it wrote to it (pre), the keys it removed, *)
(* and whether it left every other key as it was (frame).                  *)
(***************************************************************************)
\* CacheManager.ttl_config, and the default of set for other categories
TtlConfig(key_type) ==
    CASE key_type = "bases" -> Hours(4)
      [] key_type = "schema" -> Hours(1)
      [] key_type = "records" -> Minutes(5)
      [] key_type = "record" -> Minutes(2)
      [] OTHER -> Minutes(5)

\* ttl or self.ttl_config.get(key_type, timedelta(minutes=5))
ResolveTtl(key_type, ttl) ==
    IF ttl.given /\ ttl.ticks # 0 THEN ttl.ticks ELSE TtlConfig(key_type)

PrevOf(c) ==
    [op |-> c.op, key |-> c.key, arg |-> c.arg, ok |-> c.ok, at |-> c.at,
     type |-> c.type, args |-> c.args]

\* what wlog holds for a key
Written(w, key) ==
    IF key \in DOMAIN w
    THEN [known |-> TRUE, val |-> w[key].val, ttl |-> w[key].ttl, at |-> w[key].at]
    ELSE [known |-> FALSE, val |-> PyNone, ttl |-> 0, at |-> 0]

CRes0 ==
    [op |-> "none", key |-> <<>>, arg |-> PyNone, val |-> PyNone, ok |-> FALSE,
     count |-> 0, hit |-> FALSE, fail |-> FALSE, changed |-> FALSE, at |-> 0,
     wr |-> Written(<<>>, <<>>),
     seen |-> {}, pre |-> {}, removed |-> {}, frame |-> TRUE,
     type |-> "none", ttl |-> NoTtl, exp |-> NoExpiry, args |-> <<>>,
     conn |-> None, up |-> TRUE,
     prev |-> [op |-> "none", key |-> <<>>, arg |-> PyNone, ok |-> FALSE,
               at |-> 0, type |-> "none", args |-> <<>>]]

CacheReturn(op, key, out, d) ==
    [CRes0 EXCEPT !.op = op, !.key = key, !.arg = out.arg, !.val = out.val,
                  !.ok = out.ok, !.count = out.count, !.hit = out.hit,
                  !.fail = out.fail, !.changed = (d # db), !.at = now,
                  !.conn = client, !.up = storeUp,
                  !.seen = DOMAIN db, !.pre = DOMAIN db,
                  !.removed = DOMAIN db \ DOMAIN d,
                  !.frame = (\A k \in DOMAIN d :
                                k \in DOMAIN db /\ d[k] = db[k]),
                  !.prev = PrevOf(cres)]

Out0 ==
    [arg |-> PyNone, val |-> PyNone, ok |-> FALSE, count |-> 0, hit |-> FALSE,
     fail |-> FALSE]

Forget(w, keys) == [k \in DOMAIN w \ keys |-> w[k]]

\* CacheManager.get
GetOut(c, up, d, key) ==
    IF c = None \/ ~up \/ WrongType(d, key)
    THEN [Out0 EXCEPT !.fail = TRUE]
    ELSE LET cached == RedisGet(d, key)
         IN  IF Truthy(cached)
             THEN [Out0 EXCEPT !.val = Loads(cached), !.hit = TRUE]
             ELSE Out0

CacheGet(key_type, args) ==
    LET key == CacheMakeKey(key_type, args)
    IN  /\ cres' = [CacheReturn("get", key, GetOut(client, storeUp, db, key), db)
                       EXCEPT !.wr = Written(wlog, key)]
        /\ ncalls' = ncalls + 1
        /\ UNCHANGED <<now, storeUp, db, client, redis, logLevel, pc, loc, hist,
                       nticks, nouts, preload, wlog>>

SetOkUnencoded(c, up, seconds, text) ==
    c # None /\ up /\ SetexOk(seconds)

\* CacheManager.set
SetOk(c, up, seconds, text) ==
    c # None /\ up /\ text # JError /\ SetexOk(seconds)

CacheSet(key_type, value, args, ttl) ==
    LET key == CacheMakeKey(key_type, args)
        ttl2 == ResolveTtl(key_type, ttl)
        seconds == IntSeconds(ttl2)
        text == Dumps(value)
        ok == SetOk(client, storeUp, seconds, text)
        d == IF ok THEN SetEx(db, key, seconds, text, now) ELSE db
    IN  /\ db' = d
        /\ cres' = [CacheReturn("set", key,
                                [Out0 EXCEPT !.arg = value, !.ok = ok,
                                             !.fail = ~ok], d)
                       EXCEPT !.type = key_type, !.ttl = ttl,
                              !.exp = ExpiryOf(d, key)]
        /\ wlog' = IF ok
                   THEN [k \in DOMAIN wlog \cup {key} |->
                           IF k = key
                           THEN [val |-> value, ttl |-> ttl2, at |-> now]
                           ELSE wlog[k]]
                   ELSE wlog
        /\ ncalls' = ncalls + 1
        /\ UNCHANGED <<now, storeUp, client, redis, logLevel, pc, loc, hist,
                       nticks, nouts, preload>>

\* CacheManager.delete
DeleteReportsTrue(c, up, d, key) ==
    IF c = None \/ ~up
    THEN [Out0 EXCEPT !.ok = TRUE, !.fail = TRUE]
    ELSE [Out0 EXCEPT !.ok = DelCount(d, {key}) > 0]

DeleteOut(c, up, d, key) ==
    IF c = None \/ ~up
    THEN [Out0 EXCEPT !.fail = TRUE]
    ELSE [Out0 EXCEPT !.ok = DelCount(d, {key}) > 0]

CacheDelete(key_type, args) ==
    LET key == CacheMakeKey(key_type, args)
        out == DeleteOut(client, storeUp, db, key)
        d == IF out.fail THEN db ELSE Del(db, {key})
    IN  /\ db' = d
        /\ cres' = CacheReturn("delete", key, out, d)
        /\ wlog' = IF out.fail THEN wlog ELSE Forget(wlog, {key})
        /\ ncalls' = ncalls + 1
        /\ UNCHANGED <<now, storeUp, client, redis, logLevel, pc, loc, hist,
                       nticks, nouts, preload>>

\* a set that has returned: what it was given, what it sent, when the store
\* executed it (at) and as which of the sets so far (seq)
SetRecord(l, ok) ==
    [kind |-> "set", key |-> l.ckey, val |-> l.val, text |-> l.text,
     seconds |-> l.seconds, ok |-> ok, start |-> l.start, at |-> now,
     seq |-> Cardinality({e \in hist : e.rec.kind = "set"}) + 1]

\* CacheManager.set of a worker up to its await of setex: the key, the TTL
\* and the text are computed before the command is sent
SetCall(p, key_type, value, args, ttl) ==
    /\ Dispatch(p)
    /\ ncalls' = ncalls + 1
    /\ LET l == [Loc0 EXCEPT !.op = "set", !.start = now,
                             !.ckey = CacheMakeKey(key_type, args),
                             !.val = value, !.text = Dumps(value),
                             !.seconds = IntSeconds(ResolveTtl(key_type, ttl))]
       IN  IF client = None \/ l.text = JError
           THEN Apply(p, [pc |-> "idle", loc |-> Loc0,
                          out |-> {SetRecord(l, FALSE)}])
           ELSE Apply(p, [pc |-> "c_set", loc |-> l, out |-> {}])
    /\ UNCHANGED <<now, storeUp, db, cacheVars, redis, logLevel, nticks, nouts,
                   preload>>

\* the store executes SETEX key seconds text, and set returns
SetReply(p) ==
    /\ pc[p] = "c_set"
    /\ LET l == loc[p]
           ok == SetOk(client, storeUp, l.seconds, l.text)
       IN  /\ db' = IF ok THEN SetEx(db, l.ckey, l.seconds, l.text, now) ELSE db
           /\ Apply(p, [pc |-> "idle", loc |-> Loc0,
                        out |-> {SetRecord(l, ok)}])
    /\ UNCHANGED <<now, storeUp, cacheVars, redis, logLevel, ncalls, nticks,
                   nouts, preload>>

\* CacheManager.get of a worker, at the moment the store executes GET: what
\* it returns, the expiry of the entry it read, and how many sets had
\* returned by then (seq)
GetCall(p, key_type, args) ==
    /\ Dispatch(p)
    /\ ncalls' = ncalls + 1
    /\ LET key == CacheMakeKey(key_type, args)
           out == GetOut(client, storeUp, db, key)
       IN  Apply(p, [pc |-> "idle", loc |-> Loc0,
                     out |-> {[kind |-> "get", key |-> key, val |-> out.val,
                               hit |-> out.hit, fail |-> out.fail, at |-> now,
                               exp |-> ExpiryOf(db, key),
                               seq |-> Cardinality({e \in hist :
                                                      e.rec.kind = "set"})]}])
    /\ UNCHANGED <<now, storeUp, db, cacheVars, redis, logLevel, nticks, nouts,
                   preload>>

\* the dict health_check returns: its status and its other keys
HealthRecord(l, status, keys, answered) ==
    [kind |-> "health", status |-> status, keys |-> keys,
     client |-> client, answered |-> answered, latency |-> l.done - l.start,
     start |-> l.start]

\* CacheManager.health_check up to its ping
HealthCheck(p) ==
    /\ Dispatch(p)
    /\ ncalls' = ncalls + 1
    /\ LET l == [Loc0 EXCEPT !.op = "health", !.start = now, !.done = now]
       IN  IF client = None
           THEN Apply(p, [pc |-> "idle", loc |-> Loc0,
                          out |-> {HealthRecord(l, "disconnected", {"error"},
                                                FALSE)}])
           ELSE Apply(p, [pc |-> "hc_ping", loc |-> l, out |-> {}])
    /\ UNCHANGED <<now, storeUp, db, cacheVars, redis, logLevel, nticks, nouts,
                   preload>>

\* the reply of ping, and the latency
HealthPing(p) ==
    /\ pc[p] = "hc_ping"
    /\ LET l == [loc[p] EXCEPT !.done = now]
       IN  IF ~storeUp
           THEN Apply(p, [pc |-> "idle", loc |-> Loc0,
                          out |-> {HealthRecord(l, "error", {"error"}, FALSE)}])
           ELSE Apply(p, [pc |-> "hc_info", loc |-> l, out |-> {}])
    /\ UNCHANGED <<now, storeUp, db, cacheVars, redis, logLevel, ncalls, nticks,
                   nouts, preload>>

\* the reply of info("memory"), and the dict returned
HealthInfo(p) ==
    /\ pc[p] = "hc_info"
    /\ LET l == loc[p]
       IN  IF ~storeUp
           THEN Apply(p, [pc |-> "idle", loc |-> Loc0,
                          out |-> {HealthRecord(l, "error", {"error"}, FALSE)}])
           ELSE Apply(p, [pc |-> "idle", loc |-> Loc0,
                          out |-> {HealthRecord(l, "healthy",
                                                {"latency_ms", "memory_used",
                                                 "connected_clients"}, TRUE)}])
    /\ UNCHANGED <<now, storeUp, db, cacheVars, redis, logLevel, ncalls, nticks,
                   nouts, preload>>

\* ---------------------------------------------------------------------
\* hashlib.md5 (RFC 1321), on 32-bit words held as <<high, low>> halves of
\* 16 bits each, so that no intermediate value leaves the integers of TLC.

RECURSIVE Pow2(_)
Pow2(n) == IF n = 0 THEN 1 ELSE 2 * Pow2(n - 1)

Half == Pow2(16)

RECURSIVE And16(_, _)
And16(a, b) ==
    IF a = 0 \/ b = 0 THEN 0
    ELSE (a % 2) * (b % 2) + 2 * And16(a \div 2, b \div 2)

RECURSIVE Xor16(_, _)
Xor16(a, b) ==
    IF a = 0 THEN b
    ELSE IF b = 0 THEN a
    ELSE ((a + b) % 2) + 2 * Xor16(a \div 2, b \div 2)

Or16(a, b) == a + b - And16(a, b)
Not16(a) == (Half - 1) - a

WAnd(x, y) == << And16(x[1], y[1]), And16(x[2], y[2]) >>
WOr(x, y) == << Or16(x[1], y[1]), Or16(x[2], y[2]) >>
WXor(x, y) == << Xor16(x[1], y[1]), Xor16(x[2], y[2]) >>
WNot(x) == << Not16(x[1]), Not16(x[2]) >>

\* addition modulo 2^32
WAdd(x, y) ==
    LET lo == x[2] + y[2]
        hi == x[1] + y[1] + (lo \div Half)
    IN  << hi % Half, lo % Half >>

\* rotation to the left by s bits, 0 < s < 32
RotL(x, s) ==
    LET y == IF s >= 16 THEN << x[2], x[1] >> ELSE x
        r == s % 16
        up == Pow2(r)
        down == Pow2(16 - r)
    IN  IF r = 0 THEN y
        ELSE << ((y[1] * up) % Half) + (y[2] \div down),
                ((y[2] * up) % Half) + (y[1] \div down) >>

\* floor(2^32 * abs(sin(i + 1))), i = 0..63
SineTable == <<
    << 55146, 42104 >>, << 59591, 46934 >>, << 9248, 28891 >>, << 49597, 52974 >>,
    << 62844, 4015 >>, << 18311, 50730 >>, << 43056, 17939 >>, << 64838, 38145 >>,
    << 27008, 39128 >>, << 35652, 63407 >>, << 65535, 23473 >>, << 35164, 55230 >>,
    << 27536, 4386 >>, << 64920, 29075 >>, << 42617, 17294 >>, << 18868, 2081 >>,
    << 63006, 9570 >>, << 49216, 45888 >>, << 9822, 23121 >>, << 59830, 51114 >>,
    << 54831, 4189 >>, << 580, 5203 >>, << 55457, 59009 >>, << 59347, 64456 >>,
    << 8673, 52710 >>, << 49975, 2006 >>, << 62677, 3463 >>, << 17754, 5357 >>,
    << 43491, 59653 >>, << 64751, 41976 >>, << 26479, 729 >>, << 36138, 19594 >>,
    << 65530, 14658 >>, << 34673, 63105 >>, << 28061, 24866 >>, << 64997, 14348 >>,
    << 42174, 59972 >>, << 19422, 53161 >>, << 63163, 19296 >>, << 48831, 48240 >>,
    << 10395, 32454 >>, << 60065, 10234 >>, << 54511, 12421 >>, << 1160, 7429 >>,
    << 55764, 53305 >>, << 59099, 39397 >>, << 8098, 31992 >>, << 50348, 22117 >>,
    << 62505, 8772 >>, << 17194, 65431 >>, << 43924, 9127 >>, << 64659, 41017 >>,
    << 25947, 22979 >>, << 36620, 52370 >>, << 65519, 62589 >>, << 34180, 24017 >>,
    << 28584, 32335 >>, << 65068, 59104 >>, << 41729, 17172 >>, << 19976, 4513 >>,
    << 63315, 32386 >>, << 48442, 62005 >>, << 10967, 53947 >>, << 60294, 54161 >> >>

ShiftTable == <<
    7, 12, 17, 22, 7, 12, 17, 22, 7, 12, 17, 22, 7, 12, 17, 22,
    5, 9, 14, 20, 5, 9, 14, 20, 5, 9, 14, 20, 5, 9, 14, 20,
    4, 11, 16, 23, 4, 11, 16, 23, 4, 11, 16, 23, 4, 11, 16, 23,
    6, 10, 15, 21, 6, 10, 15, 21, 6, 10, 15, 21, 6, 10, 15, 21 >>

\* the message with its padding: 0x80, zeros up to 56 modulo 64, and the
\* length in bits as 64 bits, low byte first
Pad(bytes) ==
    LET n == Len(bytes)
        zeros == (119 - n) % 64
        bits == 8 * n
    IN  bytes \o << 128 >> \o [i \in 1..zeros |-> 0]
              \o << bits % 256, (bits \div 256) % 256,
                    (bits \div Half) % 256, 0, 0, 0, 0, 0 >>

\* word j (0..15) of block b (0..), low byte first
WordAt(m, b, j) ==
    LET o == 64 * b + 4 * j
    IN  << m[o + 3] + 256 * m[o + 4], m[o + 1] + 256 * m[o + 2] >>

Md5Init == << << 26437, 8961 >>, << 61389, 43913 >>,
              << 39098, 56574 >>, << 4146, 21622 >> >>

\* one of the 64 operations on the state <<A, B, C, D>>
Md5Step(st, m, b, i) ==
    LET A == st[1]
        B == st[2]
        C == st[3]
        D == st[4]
        F == IF i < 16 THEN WOr(WAnd(B, C), WAnd(WNot(B), D))
             ELSE IF i < 32 THEN WOr(WAnd(D, B), WAnd(WNot(D), C))
             ELSE IF i < 48 THEN WXor(B, WXor(C, D))
             ELSE WXor(C, WOr(B, WNot(D)))
        g == IF i < 16 THEN i
             ELSE IF i < 32 THEN (5 * i + 1) % 16
             ELSE IF i < 48 THEN (3 * i + 5) % 16
             ELSE (7 * i) % 16
        sum == WAdd(WAdd(A, F), WAdd(SineTable[i + 1], WordAt(m, b, g)))
    IN  << D, WAdd(B, RotL(sum, ShiftTable[i + 1])), B, C >>

\* the operations lo .. hi - 1 in turn; the test on first has it computed
\* before the operations that follow
RECURSIVE Md5Rounds(_, _, _, _, _)
Md5Rounds(st, m, b, lo, hi) ==
    IF hi = lo + 1 THEN Md5Step(st, m, b, lo)
    ELSE LET mid == (lo + hi) \div 2
             first == Md5Rounds(st, m, b, lo, mid)
         IN  IF Len(first) = 4 THEN Md5Rounds(first, m, b, mid, hi) ELSE st

RECURSIVE Md5Blocks(_, _, _)
Md5Blocks(st, m, b) ==
    IF 64 * b >= Len(m) THEN st
    ELSE LET r == Md5Rounds(st, m, b, 0, 64)
             sum == << WAdd(st[1], r[1]), WAdd(st[2], r[2]),
                       WAdd(st[3], r[3]), WAdd(st[4], r[4]) >>
         IN  IF Len(sum) = 4 THEN Md5Blocks(sum, m, b + 1) ELSE st

WordBytes(x) ==
    << x[2] % 256, x[2] \div 256, x[1] % 256, x[1] \div 256 >>

\* the 16 bytes of the digest
Md5Digest(bytes) ==
    LET st == Md5Blocks(Md5Init, Pad(bytes), 0)
    IN  WordBytes(st[1]) \o WordBytes(st[2]) \o
        WordBytes(st[3]) \o WordBytes(st[4])

HexDigits == << "0", "1", "2", "3", "4", "5", "6", "7",
               "8", "9", "a", "b", "c", "d", "e", "f" >>

\* hexdigest(): two lowercase digits per byte, as a sequence of characters
HexDigest(bytes) ==
    LET d == Md5Digest(bytes)
    IN  [i \in 1..(2 * Len(d)) |->
            LET x == d[(i + 1) \div 2]
            IN  HexDigits[(IF i % 2 = 1 THEN x \div 16 ELSE x % 16) + 1]]

\* the printable characters of ASCII, code 32 first (code 96 by name)
Ascii == <<
    " ", "!", "\"", "#", "$", "%", "&", "'", "(", ")", "*", "+",
    ",", "-", ".", "/", "0", "1", "2", "3", "4", "5", "6", "7",
    "8", "9", ":", ";", "<", "=", ">", "?", "@", "A", "B", "C",
    "D", "E", "F", "G", "H", "I", "J", "K", "L", "M", "N", "O",
    "P", "Q", "R", "S", "T", "U", "V", "W", "X", "Y", "Z", "[",
    "\\", "]", "^", "_", "backtick", "a", "b", "c", "d", "e", "f", "g",
    "h", "i", "j", "k", "l", "m", "n", "o", "p", "q", "r", "s",
    "t", "u", "v", "w", "x", "y", "z", "{", "|", "}", "~" >>

Ord(c) == 31 + CHOOSE i \in 1..Len(Ascii) : Ascii[i] = c

\* str.encode() of a text of ASCII characters
Encode(cs) == [i \in 1..Len(cs) |-> Ord(cs[i])]

\* ---------------------------------------------------------------------
\* create_query_hash.  Texts are sequences of characters.  A value of one
\* of the four parameters is None, an int, a str or a list of str.
QNone == Node("none", <<>>, <<>>)
QStr(cs) == Node("str", cs, <<>>)
QList(xs) == Node("list", <<>>, xs)

\* the decimal digits of a natural number
RECURSIVE Digits(_)
Digits(n) ==
    IF n < 10 THEN << HexDigits[n + 1] >>
    ELSE Digits(n \div 10) \o << HexDigits[(n % 10) + 1] >>

QInt(n) == Node("int", Digits(n), <<>>)

\* the characters of the parameter names
Spell(name) ==
    CASE name = "max_records" ->
            << "m", "a", "x", "_", "r", "e", "c", "o", "r", "d", "s" >>
      [] name = "view" -> << "v", "i", "e", "w" >>
      [] name = "formula" -> << "f", "o", "r", "m", "u", "l", "a" >>
      [] name = "sort" -> << "s", "o", "r", "t" >>

\* a < b for two str, by code points
RECURSIVE StrLess(_, _)
StrLess(a, b) ==
    IF b = <<>> THEN FALSE
    ELSE IF a = <<>> THEN TRUE
    ELSE IF Head(a) = Head(b) THEN StrLess(Tail(a), Tail(b))
    ELSE Ord(Head(a)) < Ord(Head(b))

\* the items <<key, value>> of a dict in the order of their keys
RECURSIVE SortKeys(_)
SortKeys(items) ==
    IF items = <<>> THEN <<>>
    ELSE LET x == Head(items)
             rest == SortKeys(Tail(items))
             before == SelectSeq(rest, LAMBDA y : StrLess(y[1], x[1]))
             after == SelectSeq(rest, LAMBDA y : ~StrLess(y[1], x[1]))
         IN  before \o << x >> \o after

RECURSIVE JoinText(_, _)
JoinText(parts, sep) ==
    IF parts = <<>> THEN <<>>
    ELSE IF Len(parts) = 1 THEN parts[1]
    ELSE parts[1] \o sep \o JoinText(Tail(parts), sep)

\* a str between quotes, quote and backslash escaped
RECURSIVE Escaped(_)
Escaped(cs) ==
    IF cs = <<>> THEN <<>>
    ELSE (IF Head(cs) \in {"\"", "\\"} THEN << "\\", Head(cs) >>
          ELSE << Head(cs) >>) \o Escaped(Tail(cs))

Quoted(cs) == << "\"" >> \o Escaped(cs) \o << "\"" >>

\* json.dumps of a parameter value, separators ", " and ": "
RECURSIVE ValueText(_)
ValueText(v) ==
    CASE v.t = "none" -> << "n", "u", "l", "l" >>
      [] v.t = "int" -> v.s
      [] v.t = "str" -> Quoted(v.s)
      [] v.t = "list" ->
            << "[" >>
            \o JoinText([i \in 1..Len(v.items) |-> ValueText(v.items[i])],
                        << ",", " " >>)
            \o << "]" >>

\* json.dumps(query_params, sort_keys=True, default=str); default is not
\* called for None, int, str and list
DictText(items, sort_keys) ==
    LET ordered == IF sort_keys THEN SortKeys(items) ELSE items
    IN  << "{" >>
        \o JoinText([i \in 1..Len(ordered) |->
                        Quoted(ordered[i][1]) \o << ":", " " >>
                        \o ValueText(ordered[i][2])],
                    << ",", " " >>)
        \o << "}" >>

\* A call of create_query_hash is the sequence of its arguments
\* <<parameter, value>> in the order of the call site; an argument is bound
\* to the parameter it names.
ArgOf(call, name) ==
    LET i == CHOOSE j \in 1..Len(call) : call[j][1] = name
    IN  call[i][2]

\* query_params without the entry of max_records
QueryParamsNoMax(call) ==
    << << Spell("view"), ArgOf(call, "view") >>,
       << Spell("formula"), ArgOf(call, "formula") >>,
       << Spell("sort"), ArgOf(call, "sort") >> >>

\* query_params, in the order of the dict display
QueryParams(call) ==
    << << Spell("max_records"), ArgOf(call, "max_records") >>,
       << Spell("view"), ArgOf(call, "view") >>,
       << Spell("formula"), ArgOf(call, "formula") >>,
       << Spell("sort"), ArgOf(call, "sort") >> >>

\* create_query_hash: hashlib.md5(query_str.encode()).hexdigest()[:12]
QueryHash(call) ==
    LET query_str == DictText(QueryParams(call), TRUE)
    IN  SubSeq(HexDigest(Encode(query_str)), 1, 12)

\* create_query_hash, called with the arguments of call
CreateQueryHash(call) ==
    /\ cres' = [CRes0 EXCEPT !.op = "create_query_hash", !.args = call,
                             !.key = QueryHash(call),
                             !.at = now, !.prev = PrevOf(cres)]
    /\ ncalls' = ncalls + 1
    /\ UNCHANGED <<now, storeUp, db, client, redis, logLevel, pc, loc, hist,
                   nticks, nouts, preload, wlog>>

\* CacheManager._make_key, called on its own
MakeKey(key_type, args) ==
    /\ cres' = [CRes0 EXCEPT !.op = "make_key", !.type = key_type,
                             !.args = args,
                             !.key = CacheMakeKey(key_type, args),
                             !.at = now, !.prev = PrevOf(cres)]
    /\ ncalls' = ncalls + 1
    /\ UNCHANGED <<now, storeUp, db, client, redis, logLevel, pc, loc, hist,
                   nticks, nouts, preload, wlog>>

\* CacheManager.invalidate_pattern up to the reply of KEYS
InvKeys(p, pattern) ==
    LET fail == client = None \/ ~storeUp
        keys == RedisKeys(db, CachePattern(pattern))
    IN  /\ pc[p] = "idle"
        /\ IF ~fail /\ keys # {}
           THEN /\ pc' = [pc EXCEPT ![p] = "inv_del"]
                /\ loc' = [loc EXCEPT ![p] = [Loc0 EXCEPT !.op = "inv",
                                                          !.pattern = pattern,
                                                          !.keys = keys,
                                                          !.seen = DOMAIN db]]
                /\ UNCHANGED cres
           ELSE /\ cres' = CacheReturn("invalidate", pattern,
                                       [Out0 EXCEPT !.fail = fail], db)
                /\ UNCHANGED <<pc, loc>>
        /\ ncalls' = ncalls + 1
        /\ UNCHANGED <<now, storeUp, db, client, redis, logLevel, hist, nticks,
                       nouts, preload, wlog>>

\* CacheManager.invalidate_pattern from the reply of KEYS on: DEL *keys
InvDel(p) ==
    LET keys == loc[p].keys
        d == IF storeUp THEN Del(db, keys) ELSE db
    IN  /\ pc[p] = "inv_del"
        /\ db' = d
        /\ cres' = [CacheReturn("invalidate", loc[p].pattern,
                                [Out0 EXCEPT !.fail = ~storeUp,
                                             !.count = IF storeUp
                                                       THEN DelCount(db, keys)
                                                       ELSE 0], d)
                       EXCEPT !.seen = loc[p].seen]
        /\ wlog' = IF storeUp THEN Forget(wlog, keys) ELSE wlog
        /\ pc' = [pc EXCEPT ![p] = "idle"]
        /\ loc' = [loc EXCEPT ![p] = Loc0]
        /\ UNCHANGED <<now, storeUp, client, redis, logLevel, hist, ncalls,
                       nticks, nouts, preload>>

(***************************************************************************)
(* The request handlers of main.py: the arrival of a request, and the      *)
(* steps at which a suspended handler goes on.                             *)
(***************************************************************************)
\* AIRTABLE_TOKEN, the credential every handler passes to its check
AIRTABLE_TOKEN == <<"K1">>

\* query hashes and record ids of the entries of a table
Hashes == {<<"h1">>}
RecordIds == {<<"R1">>}

\* the keys of the record-list and single-record entries of table (B, T)
TableKeys(base_id, table_id) ==
    {CacheMakeKey("records", <<base_id, table_id, a>>) : a \in Hashes}
        \cup {CacheMakeKey("record", <<base_id, table_id, r>>) : r \in RecordIds}

\* the tier whose window holds limit unexpired requests, if any
FullTier(d, base_id, api_key, t) ==
    IF Unexpired(d, RlKey(GlobalIdent(api_key)), GLOBAL_WINDOW, t) >= GLOBAL_LIMIT
    THEN "global"
    ELSE IF Unexpired(d, RlKey(BaseIdent(base_id)), BASE_WINDOW, t) >= BASE_LIMIT
    THEN "base"
    ELSE "none"

\* bool(value), as in "if cached_bases:"
PyTruthy(v) ==
    CASE v.t = "none" -> FALSE
      [] v.t = "bool" -> v.s = "True"
      [] v.t = "int" -> v.s # "0"
      [] v.t = "str" -> v.s # ""
      [] v.t \in {"list", "tuple", "dict"} -> v.items # <<>>
      [] OTHER -> TRUE

\* a request arrives: verify_api_key, check_airtable_limits where the handler
\* has one, and the handler up to its first await of the store
HandlerCall(p, h, base_id, table_id, arg, up) ==
    /\ Dispatch(p)
    /\ ncalls' = ncalls + 1
    /\ LET l == [Loc0 EXCEPT !.op = "handler", !.h = h, !.base = base_id,
                             !.table = table_id, !.arg = arg, !.up = up,
                             !.start = now, !.req = ncalls + 1,
                             !.inst = "rate_limiter",
                             !.tier = "global", !.key = AIRTABLE_TOKEN,
                             !.own = TableKeys(base_id, table_id),
                             !.gfull = (FullTier(db, base_id, AIRTABLE_TOKEN, now)
                                          = "global"),
                             !.bfull =
                                 Unexpired(db, RlKey(BaseIdent(base_id)),
                                           BASE_WINDOW, now) >= BASE_LIMIT,
                             !.full = FullTier(db, base_id, AIRTABLE_TOKEN, now)]
       IN  Apply(p, IF HasCheck(h) THEN Begin(l) ELSE Body(l, l.own, {}))
    /\ UNCHANGED <<now, storeUp, db, cacheVars, redis, logLevel, nticks, nouts,
                   preload>>

\* await cache_manager.get_bases / get_schema / get_records, the test of
\* the cached value, and the upstream call after a miss
HGet(p) ==
    /\ pc[p] = "h_get"
    /\ LET l == loc[p]
           e == EntryOf(l)
           out == GetOut(client, storeUp, db, CacheMakeKey(e.type, e.args))
           l2 == [l EXCEPT !.reach = l.reach /\ ~out.fail]
       IN  IF PyTruthy(out.val)
           THEN Apply(p, Respond(l2, 200, "cache", out.val, FALSE, NoHeaders,
                                 db, {}))
           ELSE Apply(p, Fetch(l2, {}))
    /\ UNCHANGED <<now, storeUp, db, cacheVars, redis, logLevel, ncalls, nticks,
                   nouts, preload>>

\* await cache_manager.set_bases / set_schema / set_records, and the response
HSet(p) ==
    /\ pc[p] = "h_set"
    /\ LET l == loc[p]
           e == EntryOf(l)
           seconds == IntSeconds(ResolveTtl(e.type, NoTtl))
           text == Dumps(l.up.val)
           ok == SetOk(client, storeUp, seconds, text)
           d == IF ok
                THEN SetEx(db, CacheMakeKey(e.type, e.args), seconds, text, now)
                ELSE db
       IN  /\ db' = d
           /\ Apply(p, Respond([l EXCEPT !.reach = l.reach /\ storeUp], 200,
                               "upstream", l.up.val, ok, NoHeaders, d, {}))
    /\ UNCHANGED <<now, storeUp, cacheVars, redis, logLevel, ncalls, nticks,
                   nouts, preload>>

\* invalidate_pattern of a handler up to the reply of KEYS
HKeys(p) ==
    /\ pc[p] = "h_keys"
    /\ LET l == loc[p]
           keys == RedisKeys(db, CachePattern(Head(l.todo).pattern))
       IN  IF ~storeUp \/ keys = {}
           THEN Apply(p, Clean([l EXCEPT !.todo = Tail(l.todo),
                                         !.reach = l.reach /\ storeUp], db, {}))
           ELSE Apply(p, [pc |-> "h_del", loc |-> [l EXCEPT !.keys = keys],
                          out |-> {}])
    /\ UNCHANGED <<now, storeUp, db, cacheVars, redis, logLevel, ncalls, nticks,
                   nouts, preload>>

\* invalidate_pattern of a handler from the reply of KEYS on: DEL *keys
HDel(p) ==
    /\ pc[p] = "h_del"
    /\ LET l == loc[p]
           d == IF storeUp THEN Del(db, l.keys) ELSE db
       IN  /\ db' = d
           /\ Apply(p, Clean([l EXCEPT !.todo = Tail(l.todo),
                                       !.reach = l.reach /\ storeUp,
                                       !.removed = l.removed \cup
                                                     (DOMAIN db \ DOMAIN d)],
                             d, {}))
    /\ UNCHANGED <<now, storeUp, cacheVars, redis, logLevel, ncalls, nticks,
                   nouts, preload>>

\* await cache_manager.delete("schema", ...) of a handler
HDelete(p) ==
    /\ pc[p] = "h_delete"
    /\ LET l == loc[p]
           item == Head(l.todo)
           d == IF storeUp
                THEN Del(db, {CacheMakeKey(item.type, item.args)})
                ELSE db
       IN  /\ db' = d
           /\ Apply(p, Clean([l EXCEPT !.todo = Tail(l.todo),
                                       !.reach = l.reach /\ storeUp,
                                       !.removed = l.removed \cup
                                                     (DOMAIN db \ DOMAIN d)],
                             d, {}))
    /\ UNCHANGED <<now, storeUp, cacheVars, redis, logLevel, ncalls, nticks,
                   nouts, preload>>

(***************************************************************************)
(* Initial states: the process after import and startup, in front of a     *)
(* store that holds the window left by the traffic before.  Windows of     *)
(* different identifiers live under different keys; a run exercises the    *)
(* identifier of one tier, whose window starts empty, one short of its     *)
(* limit, or full.                                                         *)
(***************************************************************************)
\* the window left by n allowed checks, one per tick, the last one a tick ago
PreWindow(n) == {<<Str(t), t>> : t \in (StartTime - n)..(StartTime - 1)}

Fills == {"empty", "nearfull", "full"}
PreCount(pre) ==
    CASE pre.fill = "empty" -> 0
      [] pre.fill = "nearfull" -> TierLimit(pre.tier) - 1
      [] pre.fill = "full" -> TierLimit(pre.tier)

PreDb(pre) ==
    PutZset(<<>>, RlKey(TierIdent(pre.tier, <<"B1">>, <<"K1">>)),
            PreWindow(PreCount(pre)),
            StartTime - 1 + Secs(TierWindow(pre.tier)))

Init ==
    /\ now = StartTime
    /\ storeUp = TRUE
    /\ preload \in [tier : {"base", "global"}, fill : Fills]
    /\ db = PreDb(preload)
    /\ client = Conn
    /\ redis = [i \in Insts |->
                  CtorRedis(IF i = "rate_limiter" THEN None ELSE Conn, None)]
    /\ logLevel \in LogLevels
    /\ pc = [p \in Procs |-> "idle"]
    /\ loc = [p \in Procs |-> Loc0]
    /\ hist = {}
    /\ ncalls = 0
    /\ nticks = 0
    /\ nouts = 0
    /\ cres = CRes0
    /\ wlog = <<>>

\* the clock advances by one tick or by the window of the tier
Jumps == {1, Secs(TierWindow(preload.tier))}

(***************************************************************************)
(* Spec: concurrent checks of one identifier through a limiter that holds  *)
(* a client, against a reachable store.                                    *)
(***************************************************************************)
Next ==
    \/ /\ ncalls < MaxCalls
       /\ \E p \in Procs : CallTier(p, "limiter", preload.tier, <<"B1">>, <<"K1">>)
    \/ \E p \in Procs : Pipeline(p)
    \/ \E p \in Procs : Zrem(p)
    \/ \E p \in Procs : Zrange(p)
    \/ /\ nticks < MaxTicks
       /\ \E d \in Jumps : Tick(d)

Spec == Init /\ [][Next]_vars

(***************************************************************************)
(* SpecFail: one worker checking through either limiter instance and       *)
(* through check_rate_limits, with a store that may become unreachable.    *)
(***************************************************************************)
NextFail ==
    \/ /\ ncalls < MaxFailCalls
       /\ \E i \in Insts : CallTier(1, i, preload.tier, <<"B1">>, <<"K1">>)
    \/ /\ ncalls < MaxFailCalls
       /\ CallCheckRateLimits(1, <<"B1">>, <<"K1">>)
    \/ Pipeline(1)
    \/ Zrem(1)
    \/ Zrange(1)
    \/ /\ nticks < MaxTicks
       /\ \E d \in Jumps : Tick(d)
    \/ StoreDown
    \/ StoreBack

SpecFail == Init /\ [][NextFail]_vars

(***************************************************************************)
(* SpecSeq: one worker, so that every call starts after the one before it  *)
(* has returned; the store stays reachable.                                *)
(***************************************************************************)
NextSeq ==
    \/ /\ ncalls < MaxCalls
       /\ CallTier(1, "limiter", preload.tier, <<"B1">>, <<"K1">>)
    \/ Pipeline(1)
    \/ Zrem(1)
    \/ Zrange(1)
    \/ /\ nticks < MaxTicks
       /\ \E d \in Jumps : Tick(d)

SpecSeq == Init /\ [][NextSeq]_vars

(***************************************************************************)
(* SpecIdle: concurrent checks of one identifier and a clock that advances *)
(* by a tick, or by a tick more than the window of the tier.               *)
(***************************************************************************)
NextIdle ==
    \/ /\ ncalls < MaxFailCalls
       /\ \E p \in Procs : CallTier(p, "limiter", preload.tier, <<"B1">>, <<"K1">>)
    \/ \E p \in Procs : Pipeline(p)
    \/ \E p \in Procs : Zrem(p)
    \/ \E p \in Procs : Zrange(p)
    \/ /\ nticks < MaxTicks
       /\ \E d \in {1, Secs(TierWindow(preload.tier)) + 1} : Tick(d)

SpecIdle == Init /\ [][NextIdle]_vars

(***************************************************************************)
(* Cache operations work on two entries; a pattern invalidation runs in    *)
(* worker 1 and the operations of other workers may fall between its two   *)
(* store calls.                                                            *)
(***************************************************************************)
CacheKeys ==
    {[type |-> "record", args |-> <<<<"B1">>, <<"T1">>, <<"R1">>>>],
     [type |-> "records", args |-> <<<<"B1">>, <<"T1">>, <<"h1">>>>]}

Patterns ==
    {<<"record", ":", "B1", ":", "T1", ":", "*">>, <<"*", ":", "B1", ":", "*">>}

\* JSON-compatible values, and values json.dumps converts or rejects
Values ==
    {PyNone, PyBool(TRUE), PyBool(FALSE), PyInt(0), PyInt(7), PyStr(""),
     PyStr("a"), PyList(<<>>), PyList(<<PyInt(1), PyNone>>), PyDict(<<>>),
     PyDict(<<PyItem(PyStr("id"), PyList(<<PyDict(<<>>)>>))>>),
     PyTuple(<<PyInt(1)>>), PyDatetime("2024-01-01 00:00:00"),
     PyDict(<<PyItem(PyInt(1), PyStr("a"))>>),
     PyDict(<<PyItem(PyTuple(<<>>), PyInt(1))>>)}

\* None, timedelta(0), half a second, a second and a half, two seconds
TtlArgs ==
    {NoTtl, Timedelta(0), Timedelta(Secs(1) \div 2),
     Timedelta(Secs(1) + Secs(1) \div 2), Timedelta(Secs(2))}

InitCache ==
    /\ now = StartTime
    /\ storeUp = TRUE
    /\ preload = [tier |-> "base", fill |-> "empty"]
    /\ db = <<>>
    /\ client \in {None, Conn}
    /\ redis = [i \in Insts |->
                  CtorRedis(IF i = "rate_limiter" THEN None ELSE Conn, None)]
    /\ logLevel = "INFO"
    /\ pc = [p \in Procs |-> "idle"]
    /\ loc = [p \in Procs |-> Loc0]
    /\ hist = {}
    /\ ncalls = 0
    /\ nticks = 0
    /\ nouts = 0
    /\ cres = CRes0
    /\ wlog = <<>>

InitConnected == InitCache /\ client = Conn

(***************************************************************************)
(* SpecCache: the four operations with and without a client, against a     *)
(* store that may become unreachable; set is given a value it can encode   *)
(* or one it cannot, and a TTL it can store or one it cannot.              *)
(***************************************************************************)
FailInputs ==
    {[value |-> PyStr("a"), ttl |-> NoTtl],
     [value |-> PyDict(<<PyItem(PyTuple(<<>>), PyInt(1))>>), ttl |-> NoTtl],
     [value |-> PyStr("a"), ttl |-> Timedelta(Secs(1) \div 2)]}

NextCache ==
    \/ /\ ncalls < MaxCacheOps
       /\ \E k \in CacheKeys : CacheGet(k.type, k.args)
    \/ /\ ncalls < MaxCacheOps
       /\ \E k \in CacheKeys, i \in FailInputs :
             CacheSet(k.type, i.value, k.args, i.ttl)
    \/ /\ ncalls < MaxCacheOps
       /\ \E k \in CacheKeys : CacheDelete(k.type, k.args)
    \/ /\ ncalls < MaxCacheOps
       /\ \E pattern \in Patterns : InvKeys(1, pattern)
    \/ InvDel(1)
    \/ /\ nticks < MaxTicks
       /\ Tick(Minutes(2))
    \/ StoreDown
    \/ StoreBack

SpecCache == InitCache /\ [][NextCache]_vars

(***************************************************************************)
(* SpecRoundTrip: set, get and delete of every value under the category's  *)
(* TTL, with a client and a reachable store; the clock advances by ticks.  *)
(***************************************************************************)
NextRoundTrip ==
    \/ /\ ncalls < MaxCacheOps
       /\ \E k \in CacheKeys : CacheGet(k.type, k.args)
    \/ /\ ncalls < MaxCacheOps
       /\ \E k \in CacheKeys, v \in Values : CacheSet(k.type, v, k.args, NoTtl)
    \/ /\ ncalls < MaxCacheOps
       /\ \E k \in CacheKeys : CacheDelete(k.type, k.args)
    \/ /\ nticks < MaxTicks
       /\ Tick(1)

SpecRoundTrip == InitConnected /\ [][NextRoundTrip]_vars

(***************************************************************************)
(* SpecExpiry: set with and without an explicit TTL, get, delete and       *)
(* pattern invalidation, with a client and a reachable store; the clock    *)
(* advances by a tick, a second, or the TTL of a single record.            *)
(***************************************************************************)
CacheJumps == {1, Secs(1), TtlConfig("record")}

NextExpiry ==
    \/ /\ ncalls < MaxCacheOps
       /\ \E k \in CacheKeys : CacheGet(k.type, k.args)
    \/ /\ ncalls < MaxCacheOps
       /\ \E k \in CacheKeys, ttl \in TtlArgs :
             CacheSet(k.type, PyStr("a"), k.args, ttl)
    \/ /\ ncalls < MaxCacheOps
       /\ \E k \in CacheKeys : CacheDelete(k.type, k.args)
    \/ /\ ncalls < MaxCacheOps
       /\ \E pattern \in Patterns : InvKeys(1, pattern)
    \/ InvDel(1)
    \/ /\ nticks < MaxCacheTicks
       /\ \E d \in CacheJumps : Tick(d)

SpecExpiry == InitConnected /\ [][NextExpiry]_vars

(***************************************************************************)
(* SpecSet: two workers set and get the entry of one key, with two values  *)
(* and with the category's TTL or a TTL of one second; the store executes  *)
(* their commands in any order, and the clock advances between them.       *)
(***************************************************************************)
SetValues == {PyStr("a"), PyDict(<<PyItem(PyStr("id"), PyStr("b"))>>)}

SetTtls == {NoTtl, Timedelta(Secs(1))}

NextSet ==
    \/ /\ ncalls < MaxCalls
       /\ \E p \in Procs, v \in SetValues, ttl \in SetTtls :
             SetCall(p, "record", v, <<<<"B1">>, <<"T1">>, <<"R1">>>>, ttl)
    \/ \E p \in Procs : SetReply(p)
    \/ /\ ncalls < MaxCalls
       /\ \E p \in Procs : GetCall(p, "record", <<<<"B1">>, <<"T1">>, <<"R1">>>>)
    \/ /\ nticks < MaxTicks
       /\ \E d \in {1, Secs(1)} : Tick(d)

SpecSet == InitConnected /\ [][NextSet]_vars

(***************************************************************************)
(* SpecKey: _make_key applied to the categories and to argument lists of   *)
(* up to three identifiers; an identifier is a path parameter of a         *)
(* request and may hold the delimiter.                                     *)
(***************************************************************************)
KeyTypes == {"schema", "records", "record"}

KeyIds == {<<"B1">>, <<"T1">>, <<"B1", ":", "T1">>}

ArgLists ==
    {<<>>} \cup {<<a>> : a \in KeyIds}
           \cup {<<a, b>> : a \in KeyIds, b \in KeyIds}
           \cup {<<a, b, c>> : a \in KeyIds, b \in KeyIds, c \in KeyIds}

NextKey ==
    /\ ncalls < MaxCacheOps
    /\ \E key_type \in KeyTypes, args \in ArgLists : MakeKey(key_type, args)

SpecKey == InitConnected /\ [][NextKey]_vars

(***************************************************************************)
(* SpecHash: create_query_hash called with parameter sets that differ in   *)
(* max_records and sort, the arguments given in the order of the           *)
(* signature, in the reverse order and in a mixed order.                   *)
(***************************************************************************)
QueryNames == << "max_records", "view", "formula", "sort" >>

GridView == QStr(<< "G", "r", "i", "d" >>)
NameSort == QList(<< QStr(<< "N", "a", "m", "e" >>) >>)

ParameterSets ==
    {<< max_records, GridView, QNone, sort >> :
        max_records \in {QInt(50), QInt(100)},
        sort \in {QNone, NameSort}}

ArgOrders == {<< 1, 2, 3, 4 >>, << 4, 3, 2, 1 >>, << 2, 4, 1, 3 >>}

QueryCalls ==
    {[i \in 1..4 |-> << QueryNames[o[i]], ps[o[i]] >>] :
        ps \in ParameterSets, o \in ArgOrders}

NextHash ==
    /\ ncalls < MaxCacheOps
    /\ \E call \in QueryCalls : CreateQueryHash(call)

SpecHash == InitConnected /\ [][NextHash]_vars

(***************************************************************************)
(* SpecBase: invalidate_base on a cache holding the schema, record lists   *)
(* and single records of two bases and the base list.  Worker 1 runs       *)
(* invalidate_base; sets of other workers may fall between its two store   *)
(* calls.                                                                  *)
(***************************************************************************)
BaseIds == {<<"B1">>, <<"B2">>}

BaseEntries ==
    {[type |-> "schema", args |-> <<b>>] : b \in BaseIds}
        \cup {[type |-> "records", args |-> <<b, <<"T1">>, <<"h1">>>>] : b \in BaseIds}
        \cup {[type |-> "record", args |-> <<<<"B1">>, <<"T1">>, <<"R1">>>>],
              [type |-> "bases", args |-> <<>>]}

\* CacheManager.invalidate_base up to the reply of KEYS
InvalidateBase(p, base_id) == InvKeys(p, <<"*", ":">> \o base_id \o <<":", "*">>)

\* the keys of the entries of a base
BaseKeys(base_id) ==
    {CacheMakeKey(e.type, e.args) :
        e \in {x \in BaseEntries : x.args # <<>> /\ x.args[1] = base_id}}

NextBase ==
    \/ /\ ncalls < MaxCacheOps
       /\ \E b \in BaseIds : InvalidateBase(1, b)
    \/ InvDel(1)
    \/ /\ ncalls < MaxCacheOps
       /\ \E k \in BaseEntries : CacheSet(k.type, PyStr("b"), k.args, NoTtl)
    \/ /\ nticks < MaxTicks
       /\ \E d \in {1, TtlConfig("records")} : Tick(d)

(***************************************************************************)
(* SpecInvalidate: pattern invalidation of a cache that earlier requests   *)
(* filled, next to a rate-limit window of the same store.  Worker 1 runs   *)
(* invalidate_pattern; set and delete of other workers may fall between    *)
(* its two store calls; the clock advances by a tick or by the TTL of a    *)
(* record list.                                                            *)
(***************************************************************************)
EntryKeys ==
    {[type |-> "records", args |-> <<<<"B1">>, <<"T1">>, <<"h1">>>>],
     [type |-> "records", args |-> <<<<"B1">>, <<"T1">>, <<"h2">>>>],
     [type |-> "records", args |-> <<<<"B1">>, <<"T2">>, <<"h1">>>>],
     [type |-> "record", args |-> <<<<"B1">>, <<"T1">>, <<"R1">>>>]}

InvPatterns ==
    {<<"records", ":", "B1", ":", "T1", ":", "*">>,
     <<"record", ":", "B1", ":", "T1", ":", "*">>,
     <<"*", ":", "B1", ":", "*">>,
     <<"*">>,
     <<"records", ":", "B1", ":", "T1", ":", "h1">>,
     <<"bases">>}

\* the store after set(e.type, value, *e.args) for every e of S at time t
RECURSIVE SetAll(_, _, _, _)
SetAll(d, S, value, t) ==
    IF S = {} THEN d
    ELSE LET e == CHOOSE x \in S : TRUE
         IN  SetAll(SetEx(d, CacheMakeKey(e.type, e.args),
                          IntSeconds(ResolveTtl(e.type, NoTtl)), Dumps(value), t),
                    S \ {e}, value, t)

WrittenAll(S, value, t) ==
    [k \in {CacheMakeKey(e.type, e.args) : e \in S} |->
        LET e == CHOOSE x \in S : CacheMakeKey(x.type, x.args) = k
        IN  [val |-> value, ttl |-> ResolveTtl(e.type, NoTtl), at |-> t]]

(***************************************************************************)
(* SpecConnect: the process from the construction of the cache manager on. *)
(* The store holds entries an earlier process has written and may be       *)
(* unreachable at startup; lifespan calls connect() before any request is  *)
(* served, and connect() may be called again between operations.           *)
(***************************************************************************)
\* the client connect() leaves after the try block: from_url builds the
\* handle without any traffic, ping raises when the store is unreachable
ConnectKeepsHandle(up) == Conn

ConnectOut(up) == IF up THEN Conn ELSE None

ConnectRecord(ok) ==
    [kind |-> "connect", ok |-> ok, at |-> now,
     seq |-> Cardinality({e \in hist : e.rec.kind = "connect"}) + 1]

\* CacheManager.connect, as awaited by lifespan
Connect ==
    /\ \A p \in Procs : pc[p] = "idle"
    /\ client' = ConnectOut(storeUp)
    /\ hist' = Log(hist, {ConnectRecord(storeUp)})
    /\ ncalls' = ncalls + 1
    /\ UNCHANGED <<now, storeUp, db, redis, logLevel, pc, loc, nticks, nouts,
                   preload, cres, wlog>>

InitConstructed ==
    /\ now = StartTime
    /\ storeUp \in BOOLEAN
    /\ preload = [tier |-> "base", fill |-> "empty"]
    /\ db = SetAll(<<>>, CacheKeys, PyStr("a"), StartTime)
    /\ wlog = WrittenAll(CacheKeys, PyStr("a"), StartTime)
    /\ client = None
    /\ redis = [i \in Insts |->
                  CtorRedis(IF i = "rate_limiter" THEN None ELSE Conn, None)]
    /\ logLevel = "INFO"
    /\ pc = [p \in Procs |-> "idle"]
    /\ loc = [p \in Procs |-> Loc0]
    /\ hist = {}
    /\ ncalls = 0
    /\ nticks = 0
    /\ nouts = 0
    /\ cres = CRes0

NextConnect ==
    \/ /\ ncalls < MaxCalls
       /\ Connect
    \/ /\ ncalls < MaxCalls
       /\ \E k \in CacheKeys : CacheGet(k.type, k.args)
    \/ /\ ncalls < MaxCalls
       /\ \E k \in CacheKeys : CacheSet(k.type, PyStr("b"), k.args, NoTtl)
    \/ /\ ncalls < MaxCalls
       /\ \E k \in CacheKeys : CacheDelete(k.type, k.args)
    \/ /\ ncalls < MaxCalls
       /\ \E pattern \in Patterns : InvKeys(1, pattern)
    \/ InvDel(1)
    \/ StoreDown
    \/ StoreBack

SpecConnect == InitConstructed /\ [][NextConnect]_vars

InitPopulated ==
    /\ now = StartTime
    /\ storeUp = TRUE
    /\ preload = [tier |-> "base", fill |-> "nearfull"]
    /\ \E S \in {X \in SUBSET EntryKeys : Cardinality(X) >= 3} :
          /\ db = SetAll(PreDb(preload), S, PyStr("a"), StartTime)
          /\ wlog = WrittenAll(S, PyStr("a"), StartTime)
    /\ client = Conn
    /\ redis = [i \in Insts |->
                  CtorRedis(IF i = "rate_limiter" THEN None ELSE Conn, None)]
    /\ logLevel = "INFO"
    /\ pc = [p \in Procs |-> "idle"]
    /\ loc = [p \in Procs |-> Loc0]
    /\ hist = {}
    /\ ncalls = 0
    /\ nticks = 0
    /\ nouts = 0
    /\ cres = CRes0

NextInvalidate ==
    \/ /\ ncalls < MaxCacheOps
       /\ \E pattern \in InvPatterns : InvKeys(1, pattern)
    \/ InvDel(1)
    \/ /\ ncalls < MaxCacheOps
       /\ \E k \in EntryKeys : CacheSet(k.type, PyStr("b"), k.args, NoTtl)
    \/ /\ ncalls < MaxCacheOps
       /\ \E k \in EntryKeys : CacheDelete(k.type, k.args)
    \/ /\ nticks < MaxTicks
       /\ \E d \in {1, TtlConfig("records")} : Tick(d)

SpecInvalidate == InitPopulated /\ [][NextInvalidate]_vars

(***************************************************************************)
(* SpecNamespaces: the cache manager and a limiter that holds the client,  *)
(* one operation after the other, on a store that holds cache entries and  *)
(* the window of base:B1.  The globs and identifiers include the ones that *)
(* match everything.                                                       *)
(***************************************************************************)
ResetArgs == {<<>>, <<"B1">>, <<"records">>}

NextNamespaces ==
    \/ /\ ncalls < MaxCacheOps
       /\ \E pattern \in InvPatterns : InvKeys(1, pattern)
    \/ InvDel(1)
    \/ /\ ncalls < MaxCacheOps
       /\ \E k \in EntryKeys : CacheDelete(k.type, k.args)
    \/ /\ ncalls < MaxCacheOps
       /\ CallTier(1, "limiter", "base", <<"B1">>, <<"K1">>)
    \/ Pipeline(1)
    \/ Zrem(1)
    \/ Zrange(1)
    \/ /\ ncalls < MaxCacheOps
       /\ \E identifier \in ResetArgs : ResetLimits(1, "limiter", identifier)
    \/ ResetDel(1)

SpecNamespaces == InitPopulated /\ [][NextNamespaces]_vars

\* SpecBase starts from a cache that holds at least five of the entries
InitBases ==
    /\ now = StartTime
    /\ storeUp = TRUE
    /\ preload = [tier |-> "base", fill |-> "empty"]
    /\ \E S \in {X \in SUBSET BaseEntries : Cardinality(X) >= 5} :
          /\ db = SetAll(<<>>, S, PyStr("a"), StartTime)
          /\ wlog = WrittenAll(S, PyStr("a"), StartTime)
    /\ client = Conn
    /\ redis = [i \in Insts |->
                  CtorRedis(IF i = "rate_limiter" THEN None ELSE Conn, None)]
    /\ logLevel = "INFO"
    /\ pc = [p \in Procs |-> "idle"]
    /\ loc = [p \in Procs |-> Loc0]
    /\ hist = {}
    /\ ncalls = 0
    /\ nticks = 0
    /\ nouts = 0
    /\ cres = CRes0

SpecBase == InitBases /\ [][NextBase]_vars

(***************************************************************************)
(* SpecGateway: requests to every handler of main.py, one after the other, *)
(* in front of a store that holds the window left by earlier traffic.  The *)
(* checks of the handlers go through the module-level rate_limiter, which  *)
(* holds no client, so that no check is ever suspended at the store.       *)
(***************************************************************************)
Handlers == ReadHandlers \cup MutateHandlers \cup WebHandlers

\* list_bases checks its limits under the base id "global"
BaseFor(h) == IF h = "list_bases" THEN <<"global">> ELSE <<"B1">>

\* the upstream call fails, or succeeds with a result
Ups ==
    {[ok |-> FALSE, val |-> PyNone],
     [ok |-> TRUE, val |-> PyList(<<PyStr("x")>>)]}

NextGateway ==
    \/ /\ ncalls < MaxRequests
       /\ \E h \in Handlers, up \in Ups :
             HandlerCall(1, h, BaseFor(h), <<"T", "1">>, <<"h1">>, up)
    \/ HGet(1)
    \/ HSet(1)
    \/ HKeys(1)
    \/ HDel(1)
    \/ HDelete(1)

SpecGateway == Init /\ [][NextGateway]_vars

(***************************************************************************)
(* SpecMutate: record mutations on the tables of a base whose entries,     *)
(* schema and base list are cached, next to list_records requests of other *)
(* workers, with a store that may become unreachable.  Table identifiers   *)
(* are the path parameters of the requests, character by character.        *)
(***************************************************************************)
Tables == {<<"T", "1">>, <<"T", "2">>, <<"T", "*">>}

CachedEntries ==
    {[type |-> "records", args |-> <<<<"B1">>, t, <<"h1">>>>] : t \in Tables}
        \cup {[type |-> "record", args |-> <<<<"B1">>, <<"T", "1">>, <<"R1">>>>],
               [type |-> "schema", args |-> << <<"B1">> >>],
               [type |-> "bases", args |-> <<>>]}

InitCached ==
    /\ now = StartTime
    /\ storeUp = TRUE
    /\ preload = [tier |-> "base", fill |-> "empty"]
    /\ db = SetAll(<<>>, CachedEntries, PyList(<<PyStr("old")>>), StartTime)
    /\ wlog = WrittenAll(CachedEntries, PyList(<<PyStr("old")>>), StartTime)
    /\ client = Conn
    /\ redis = [i \in Insts |->
                  CtorRedis(IF i = "rate_limiter" THEN None ELSE Conn, None)]
    /\ logLevel = "INFO"
    /\ pc = [p \in Procs |-> "idle"]
    /\ loc = [p \in Procs |-> Loc0]
    /\ hist = {}
    /\ ncalls = 0
    /\ nticks = 0
    /\ nouts = 0
    /\ cres = CRes0

NextMutate ==
    \/ /\ ncalls < MaxRequests
       /\ \E p \in Procs, h \in MutateHandlers, t \in {<<"T", "1">>, <<"T", "*">>},
             up \in Ups :
             HandlerCall(p, h, <<"B1">>, t, <<"R1">>, up)
    \/ /\ ncalls < MaxRequests
       /\ \E p \in Procs :
             HandlerCall(p, "list_records", <<"B1">>, <<"T", "1">>, <<"h1">>,
                         [ok |-> TRUE, val |-> PyList(<<PyStr("x")>>)])
    \/ \E p \in Procs : HGet(p)
    \/ \E p \in Procs : HSet(p)
    \/ \E p \in Procs : HKeys(p)
    \/ \E p \in Procs : HDel(p)
    \/ StoreDown
    \/ StoreBack

SpecMutate == InitCached /\ [][NextMutate]_vars

(***************************************************************************)
(* SpecRace: list_records and create_record requests on one table, by two  *)
(* workers, on an empty cache with a reachable store; the upstream calls   *)
(* succeed or fail, and the store executes the cache calls of the two      *)
(* requests in any order.                                                  *)
(***************************************************************************)
NextRace ==
    \/ /\ ncalls < MaxRequests
       /\ \E p \in Procs, up \in Ups :
             HandlerCall(p, "list_records", <<"B1">>, <<"T", "1">>, <<"h1">>, up)
    \/ /\ ncalls < MaxRequests
       /\ \E p \in Procs, up \in Ups :
             HandlerCall(p, "create_record", <<"B1">>, <<"T", "1">>, <<"R1">>, up)
    \/ \E p \in Procs : HGet(p)
    \/ \E p \in Procs : HSet(p)
    \/ \E p \in Procs : HKeys(p)
    \/ \E p \in Procs : HDel(p)
    \/ /\ nticks < MaxTicks
       /\ Tick(1)

SpecRace == InitConnected /\ [][NextRace]_vars

(***************************************************************************)
(* SpecRead: bases, schema and record-list requests one after the other,   *)
(* with a client and a reachable store; upstream answers with an empty or  *)
(* a non-empty result, or fails; the clock advances by a tick or by the    *)
(* TTL of a record list.                                                   *)
(***************************************************************************)
ReadUps ==
    {[ok |-> FALSE, val |-> PyNone],
     [ok |-> TRUE, val |-> PyList(<<>>)],
     [ok |-> TRUE, val |-> PyList(<<PyStr("x")>>)]}

NextRead ==
    \/ /\ ncalls < MaxRequests
       /\ \E h \in ReadHandlers, up \in ReadUps :
             \* a schema result is a dict with two keys, never empty
             /\ h = "get_base_schema" => up.val # PyList(<<>>)
             /\ HandlerCall(1, h, BaseFor(h), <<"T", "1">>, <<"h1">>, up)
    \/ HGet(1)
    \/ HSet(1)
    \/ /\ nticks < MaxTicks
       /\ \E d \in {1, TtlConfig("records")} : Tick(d)

SpecRead == InitConnected /\ [][NextRead]_vars

(***************************************************************************)
(* SpecCreateBase: web_create_base and list_bases requests one after the   *)
(* other, on a cache that holds the base list, with a store that may       *)
(* become unreachable.  The pattern of web_create_base holds no wildcard   *)
(* and the store holds no key equal to it, so its invalidate_pattern       *)
(* returns from the reply of KEYS.                                         *)
(***************************************************************************)
NextCreateBase ==
    \/ /\ ncalls < MaxRequests
       /\ \E up \in Ups :
             HandlerCall(1, "web_create_base", <<"B1">>, <<"T", "1">>, <<"h1">>, up)
    \/ /\ ncalls < MaxRequests
       /\ \E up \in ReadUps :
             HandlerCall(1, "list_bases", <<"global">>, <<"T", "1">>, <<"h1">>, up)
    \/ HGet(1)
    \/ HSet(1)
    \/ HKeys(1)
    \/ /\ nticks < MaxTicks
       /\ Tick(1)
    \/ StoreDown
    \/ StoreBack

SpecCreateBase == InitCached /\ [][NextCreateBase]_vars

(***************************************************************************)
(* SpecReset: reset_limits through either limiter instance, on a store     *)
(* that holds the windows of two bases, one identifier being the beginning *)
(* of the other, and a global window; the store may become unreachable and *)
(* the clock advances by a tick or by the window of the base tier.         *)
(* Identifiers are given character by character.                           *)
(***************************************************************************)
ResetIdents ==
    {BaseIdent(<<"B", "1">>), BaseIdent(<<"B", "1", "2">>),
     GlobalIdent(<<"K1">>)}

WindowOfIdent(i) == IF Head(i) = "base" THEN BASE_WINDOW ELSE GLOBAL_WINDOW

\* the store after one allowed check of every identifier of S, a tick ago
RECURSIVE Windows(_, _)
Windows(d, S) ==
    IF S = {} THEN d
    ELSE LET i == CHOOSE x \in S : TRUE
         IN  Windows(PutZset(d, RlKey(i),
                             {<<Str(StartTime - 1), StartTime - 1>>},
                             StartTime - 1 + Secs(WindowOfIdent(i))),
                     S \ {i})

InitWindows ==
    /\ now = StartTime
    /\ storeUp = TRUE
    /\ preload = [tier |-> "base", fill |-> "empty"]
    /\ \E S \in {X \in SUBSET ResetIdents : Cardinality(X) >= 2} :
          db = Windows(<<>>, S)
    /\ client = Conn
    /\ redis = [i \in Insts |->
                  CtorRedis(IF i = "rate_limiter" THEN None ELSE Conn, None)]
    /\ logLevel = "INFO"
    /\ pc = [p \in Procs |-> "idle"]
    /\ loc = [p \in Procs |-> Loc0]
    /\ hist = {}
    /\ ncalls = 0
    /\ nticks = 0
    /\ nouts = 0
    /\ cres = CRes0
    /\ wlog = <<>>

NextReset ==
    \/ /\ ncalls < MaxCacheOps
       /\ \E i \in Insts, identifier \in ResetIdents : ResetLimits(1, i, identifier)
    \/ ResetDel(1)
    \/ /\ nticks < MaxTicks
       /\ \E d \in {1, Secs(BASE_WINDOW)} : Tick(d)
    \/ StoreDown
    \/ StoreBack

SpecReset == InitWindows /\ [][NextReset]_vars

(***************************************************************************)
(* SpecHealth: health_check with and without a client, against a store     *)
(* that may become unreachable between the two probes; the clock advances  *)
(* by ticks.                                                               *)
(***************************************************************************)
NextHealth ==
    \/ /\ ncalls < MaxCalls
       /\ HealthCheck(1)
    \/ HealthPing(1)
    \/ HealthInfo(1)
    \/ /\ nticks < MaxCacheTicks
       /\ Tick(1)
    \/ StoreDown
    \/ StoreBack

SpecHealth == InitCache /\ [][NextHealth]_vars

(***************************************************************************)
(* The history, and the requests that filled the initial window.           *)
(***************************************************************************)
Swc == {e \in hist : e.rec.kind = "swc"}
Crl == {e \in hist : e.rec.kind = "crl"}

\* the checks that went through the store without any step raising
StorePaths == {"allowed", "denied", "log_error"}
FailPaths == {"noclient", "store_error"}

TheIdent == TierIdent(preload.tier, <<"B1">>, <<"K1">>)
TheLimit == TierLimit(preload.tier)
TheWindow == Secs(TierWindow(preload.tier))

\* the timestamps of the allowed requests that left the initial window
PreTimes == (StartTime - PreCount(preload))..(StartTime - 1)

\* the pipeline of the check reached the store at the instant of its clock read
Timely(e) == e.rec.timely

\* decisions of the allowed branch of timely checks of TheIdent with a request
\* timestamp in a..b, the requests before the initial state included
AllowedIn(a, b) ==
    Cardinality({e \in Swc : /\ e.rec.ident = TheIdent
                             /\ e.rec.path = "allowed"
                             /\ Timely(e)
                             /\ e.rec.res.allowed
                             /\ a <= e.rec.tnow /\ e.rec.tnow <= b})
    + Cardinality({t \in PreTimes : a <= t /\ t <= b})

Times == PreTimes \cup {e.rec.tnow : e \in Swc}

(***************************************************************************)
(* C1: with a reachable store, under every interleaving of concurrent      *)
(* checks of an identifier (equal clock reads included), the number of     *)
(* checks that return allowed=True with request timestamps inside one      *)
(* interval of length window_seconds never exceeds limit.  Counted are the *)
(* decisions of the allowed branch of checks that reached the store at the *)
(* instant of their clock read.                                            *)
(***************************************************************************)
C1_AllowedNeverExceedLimit ==
    \A a \in Times : AllowedIn(a, a + TheWindow - 1) <= TheLimit

(***************************************************************************)
(* C2: consecutive checks of one identifier inside one window, starting    *)
(* from an empty window: the k-th (k <= limit) returns allowed=True with   *)
(* remaining = limit - k, and the (limit+1)-th returns allowed=False with  *)
(* remaining = 0.  The requests behind the initial window are the first    *)
(* ones of the series.                                                     *)
(***************************************************************************)
\* the position of a request in the series, counted by its timestamp
Rank(t) == Cardinality({u \in Times : u <= t})

OneSeries ==
    /\ \A e \in Swc : e.rec.path \in StorePaths /\ Timely(e)
    /\ \A e, f \in Swc : e # f => e.rec.tnow # f.rec.tnow
    /\ \A e \in Swc : e.rec.tnow \notin PreTimes
    /\ \A t, u \in Times : t - u < TheWindow

C2_CountdownThenDenied ==
    OneSeries =>
        \A e \in Swc :
            /\ Rank(e.rec.tnow) <= TheLimit =>
                  /\ e.rec.res.allowed
                  /\ e.rec.res.remaining = TheLimit - Rank(e.rec.tnow)
            /\ Rank(e.rec.tnow) = TheLimit + 1 =>
                  /\ ~e.rec.res.allowed
                  /\ e.rec.res.remaining = 0

(***************************************************************************)
(* C3: a check through a limiter without client, or a check one of whose   *)
(* store steps raised, returns allowed=True, remaining = limit - 1 and     *)
(* retry_after = 0; check_rate_limits reports allowed when its checks fail *)
(* this way.                                                               *)
(***************************************************************************)
C3_FailOpen ==
    /\ \A e \in Swc :
          e.rec.path \in FailPaths =>
              /\ e.rec.res.allowed
              /\ e.rec.res.remaining = TierLimit(e.rec.tier) - 1
              /\ e.rec.res.retry_after = 0
    /\ \A e \in Crl :
          (e.rec.gpath \in FailPaths /\ e.rec.bpath \in FailPaths) => e.rec.allowed
    /\ \A p \in Procs : pc[p] \in {"idle", "pipe", "zrem", "zrange"}

\* reached: the compensating delete or the read of the oldest entry raised,
\* and a check_rate_limits call went through a limiter without client
C3_Witness ==
    /\ \E e \in Swc : /\ e.rec.path = "store_error"
                      /\ e.rec.cur >= TierLimit(e.rec.tier)
                      /\ e.rec.res.allowed
    /\ \E e \in Crl : e.rec.gpath = "noclient" /\ e.rec.allowed

C6_WindowWithinLimit ==
    (\A p \in Procs : ~(pc[p] = "zrem" /\ IdentOf(loc[p]) = TheIdent)) =>
        Unexpired(db, RlKey(TheIdent), TierWindow(preload.tier), now) <= TheLimit

(***************************************************************************)
(* C7: after an identifier has been denied, a check whose clock read is at *)
(* least window_seconds after the newest recorded timestamp of the         *)
(* identifier returns allowed=True.                                        *)
(***************************************************************************)
DeniedBefore(e) ==
    \E d \in Swc : /\ d.rec.ident = e.rec.ident
                   /\ ~d.rec.res.allowed
                   /\ d.rec.tnow < e.rec.tnow

WaitedOut(e) ==
    /\ e.rec.path \in StorePaths
    /\ e.rec.newest >= 0
    /\ e.rec.tnow >= e.rec.newest + Secs(TierWindow(e.rec.tier))

C7_AllowedAfterWindow ==
    \A e \in Swc : (DeniedBefore(e) /\ WaitedOut(e)) => e.rec.res.allowed

C7_Witness ==
    \E e \in Swc : /\ DeniedBefore(e)
                   /\ WaitedOut(e)
                   /\ e.rec.path = "allowed"
                   /\ e.rec.cur = 0

(***************************************************************************)
(* C8: every denied decision carries retry_after > 0.                      *)
(***************************************************************************)
C8_DeniedRetryAfterPositive ==
    \A e \in Swc : ~e.rec.res.allowed => e.rec.res.retry_after > 0

RECURSIVE JsonCompatible(_)
JsonCompatible(v) ==
    \/ v.t \in {"none", "bool", "int", "str"}
    \/ /\ v.t = "list"
       /\ \A i \in 1..Len(v.items) : JsonCompatible(v.items[i])
    \/ /\ v.t = "dict"
       /\ \A i \in 1..Len(v.items) :
             /\ v.items[i].items[1].t = "str"
             /\ JsonCompatible(v.items[i].items[2])

SetThenGet ==
    /\ cres.op = "get" /\ ~cres.fail
    /\ cres.prev.op = "set" /\ cres.prev.ok
    /\ cres.prev.key = cres.key
    /\ cres.prev.at = cres.at

C9_RoundTrip ==
    (SetThenGet /\ JsonCompatible(cres.prev.arg)) =>
        (cres.hit /\ cres.val = cres.prev.arg)

\* the round trip of an empty list
C9_Witness ==
    /\ SetThenGet
    /\ cres.prev.arg = PyList(<<>>)
    /\ cres.val = PyList(<<>>)

(***************************************************************************)
(* C10: a get that reaches the store returns the entry of the last         *)
(* successful set of its key (none deleted or invalidated since) while     *)
(* less than the resolved TTL T, truncated to whole seconds, has elapsed   *)
(* since the write, and returns absent at every time after T has elapsed.  *)
(***************************************************************************)
GetOfWritten == cres.op = "get" /\ ~cres.fail /\ cres.wr.known

Elapsed == cres.at - cres.wr.at

SuffixMatches(key, glob) ==
    /\ Len(key) >= 2
    /\ key[1] = "airtable" /\ key[2] = ":"
    /\ GlobMatch(glob, SubSeq(key, 3, Len(key)))

Invalidated == cres.op = "invalidate" /\ ~cres.fail

C11_InvalidateRemovesMatching ==
    Invalidated =>
        /\ cres.removed = {k \in cres.seen : SuffixMatches(k, cres.key)} \cap cres.pre
        /\ cres.frame
        /\ cres.count = Cardinality(cres.removed)

\* records:B1:T1:* removes records:B1:T1:h1 and records:B1:T1:h2 and leaves
\* records:B1:T2:h1
C11_Witness ==
    /\ Invalidated
    /\ cres.key = <<"records", ":", "B1", ":", "T1", ":", "*">>
    /\ cres.removed = {CacheMakeKey("records", <<<<"B1">>, <<"T1">>, <<"h1">>>>),
                       CacheMakeKey("records", <<<<"B1">>, <<"T1">>, <<"h2">>>>)}
    /\ cres.count = 2
    /\ CacheMakeKey("records", <<<<"B1">>, <<"T2">>, <<"h1">>>>) \in DOMAIN db

(***************************************************************************)
(* C13: every call a handler makes to the upstream API comes after a       *)
(* check_rate_limits call of the same request that returned allowed.       *)
(***************************************************************************)
UpCalls == {e \in hist : e.rec.kind = "up"}
Responses == {e \in hist : e.rec.kind = "resp"}

C13_UpstreamAfterAllowedCheck == \A e \in UpCalls : e.rec.checked

(***************************************************************************)
(* C20: a request to a rate-limited handler that arrives while the window  *)
(* of a tier is full is answered with status 429, carrying the limit of    *)
(* that tier, remaining = 0, the reset time, retry-after and the tier.     *)
(***************************************************************************)
C20_FullWindowGives429 ==
    \A e \in Responses :
        (HasCheck(e.rec.h) /\ e.rec.full # "none") =>
            /\ e.rec.status = 429
            /\ e.rec.hdr.type = e.rec.full
            /\ e.rec.hdr.limit = TierLimit(e.rec.full)
            /\ e.rec.hdr.remaining = 0
            /\ e.rec.hdr.reset >= IntSeconds(e.rec.start)
            /\ e.rec.hdr.retry_after >= 0

(***************************************************************************)
(* C12: a record create, update, delete or batch-create on table (B, T)    *)
(* that returned successfully, all of its store calls having succeeded,    *)
(* has left no record-list or single-record entry of (B, T) that was       *)
(* cached before the mutation, and has removed no entry of another table,  *)
(* no schema entry and no base-list entry.                                 *)
(***************************************************************************)
Mutated(e) == e.rec.h \in MutateHandlers /\ e.rec.status = 200 /\ e.rec.reach

C12_MutationInvalidatesTable ==
    \A e \in Responses :
        Mutated(e) =>
            /\ e.rec.stale = {}
            /\ e.rec.removed \subseteq TableKeys(e.rec.base, e.rec.table)

(***************************************************************************)
(* C14: when a bases, schema or record-list request has written its result *)
(* V through to the cache, an identical request that arrives before the    *)
(* TTL of the entry has elapsed (nothing having been invalidated) is       *)
(* answered with V from the cache, without upstream call.                  *)
(***************************************************************************)
SameRequest(a, b) ==
    /\ a.h = b.h /\ a.base = b.base /\ a.table = b.table /\ a.arg = b.arg

WroteThrough(e) ==
    e.rec.h \in ReadHandlers /\ e.rec.source = "upstream" /\ e.rec.wrote

TtlOf(h) ==
    TtlConfig(CASE h = "list_bases" -> "bases"
                [] h = "get_base_schema" -> "schema"
                [] OTHER -> "records")

C14_RepeatedReadServedFromCache ==
    \A e \in Responses, f \in Responses :
        (/\ WroteThrough(e)
         /\ SameRequest(e.rec, f.rec)
         /\ f.rec.req > e.rec.req
         /\ f.rec.start >= e.rec.at
         /\ f.rec.start - e.rec.at < TtlOf(e.rec.h))
            => (f.rec.source = "cache" /\ f.rec.val = e.rec.val)

(***************************************************************************)
(* C15: with the client of the cache manager connected at startup, a check *)
(* through the module-level rate limiter (the one check_rate_limits uses)  *)
(* goes to the store: it never returns the result of the branch for an     *)
(* absent client.                                                          *)
(***************************************************************************)
C15_LimiterUsesSharedConnection ==
    client = Conn =>
        \A e \in Swc : e.rec.inst = "rate_limiter" => e.rec.path # "noclient"

(***************************************************************************)
(* C16: a check that denies its request, and completes at the instant of   *)
(* its clock read with no other check in between, leaves in the window of  *)
(* the identifier exactly the entries that were unexpired before it.       *)
(***************************************************************************)
C16_DenialLeavesWindowAsBefore ==
    \A e \in Swc :
        (e.rec.path = "denied" /\ e.rec.done = e.rec.tnow) =>
            e.rec.after = e.rec.before

(***************************************************************************)
(* C17: under every interleaving of concurrent checks of an identifier, a  *)
(* check that reached the store at the instant of its clock read returns   *)
(* allowed=False only if at least limit requests that were reported        *)
(* allowed have their timestamps inside its trailing window; the entry of  *)
(* a request that ends up denied counts for no other check.                *)
(***************************************************************************)
\* requests reported allowed with a timestamp in a..b, the requests before
\* the initial state included
ReportedAllowedIn(a, b) ==
    Cardinality({e \in Swc : /\ e.rec.ident = TheIdent
                             /\ e.rec.res.allowed
                             /\ a <= e.rec.tnow /\ e.rec.tnow <= b})
    + Cardinality({t \in PreTimes : a <= t /\ t <= b})

C17_DeniedOnlyByAllowedRequests ==
    \A e \in Swc :
        (e.rec.path = "denied" /\ Timely(e)) =>
            ReportedAllowedIn(e.rec.tnow - TheWindow + 1, e.rec.tnow) >= TheLimit

(***************************************************************************)
(* C18: every allowed decision of a check all of whose store steps         *)
(* succeeded carries remaining = limit - current - 1, current being the    *)
(* reply of zcard in the pipeline, and so 0 <= remaining <= limit - 1.     *)
(***************************************************************************)
C18_AllowedRemaining ==
    \A e \in Swc :
        (e.rec.path \in StorePaths /\ e.rec.res.allowed) =>
            /\ e.rec.res.remaining = TierLimit(e.rec.tier) - e.rec.cur - 1
            /\ 0 <= e.rec.res.remaining
            /\ e.rec.res.remaining <= TierLimit(e.rec.tier) - 1

(***************************************************************************)
(* C19: every denied decision carries retry_after = oldest + window - now, *)
(* oldest being the lowest timestamp left in the window after the          *)
(* compensating delete (window_seconds when the window is empty), and      *)
(* reset_time = now + retry_after.                                         *)
(***************************************************************************)
\* oldest_timestamp + window_seconds - now, in ticks
RetryTicks(e) ==
    IF e.rec.after = {}
    THEN Secs(TierWindow(e.rec.tier))
    ELSE (CHOOSE x \in ZRangeFirst(e.rec.after) : TRUE)[2]
            + Secs(TierWindow(e.rec.tier)) - e.rec.tnow

C19_DeniedRetryAfter ==
    \A e \in Swc :
        e.rec.path = "denied" =>
            /\ Secs(e.rec.res.retry_after) = RetryTicks(e)
            /\ e.rec.res.reset_time = e.rec.tnow + Secs(e.rec.res.retry_after)

(***************************************************************************)
(* C21: a delete that reached the store has removed the key built from     *)
(* its category and arguments and no other key, has left every other key   *)
(* with its value and its expiry, and has returned True exactly when that  *)
(* key was in the store, unexpired, right before the call.                 *)
(***************************************************************************)
DeleteReached == cres.op = "delete" /\ ~cres.fail

C21_DeleteRemovesOneKey ==
    DeleteReached =>
        /\ cres.key \notin DOMAIN db
        /\ cres.removed \subseteq {cres.key}
        /\ cres.frame
        /\ cres.ok <=> cres.key \in cres.pre

\* a delete has returned True and the other entries are still in the store
C21_Witness ==
    /\ DeleteReached
    /\ cres.ok
    /\ cres.removed = {cres.key}
    /\ Cardinality(DOMAIN db) >= 3

(***************************************************************************)
(* C22: a set that returned True has stored its entry with the TTL of its  *)
(* category from the table (bases 4 h, schema 1 h, records 5 min, record   *)
(* 2 min, any other 5 min) when no ttl was supplied, and with the supplied *)
(* ttl when one was, for every supplied duration.                          *)
(***************************************************************************)
\* the TTL the caller asked for
AskedTtl == IF cres.ttl.given THEN cres.ttl.ticks ELSE TtlConfig(cres.type)

C22_SetUsesTableOrSuppliedTtl ==
    (cres.op = "set" /\ cres.ok) => cres.exp = cres.at + AskedTtl

(***************************************************************************)
(* C23: two _make_key calls yield the same key if and only if they have    *)
(* the same category and the same ordered argument list.                   *)
(***************************************************************************)
TwoKeys == cres.op = "make_key" /\ cres.prev.op = "make_key"

C23_MakeKeyInjective ==
    TwoKeys =>
        (cres.key = cres.prev.key
            <=> (cres.type = cres.prev.type /\ cres.args = cres.prev.args))

(***************************************************************************)
(* C24: a set whose value json.dumps cannot encode returns False and       *)
(* leaves the store as it was: an entry stored earlier under the key keeps *)
(* its value and its expiry.                                               *)
(***************************************************************************)
SetOfUnencodable == cres.op = "set" /\ Dumps(cres.arg) = JError

C24_UnencodableSetFails ==
    SetOfUnencodable => (~cres.ok /\ ~cres.changed /\ cres.frame)

\* with client and store at hand, the set of a dict with a tuple key has
\* failed over the entry an earlier set left under the key
C24_Witness ==
    /\ SetOfUnencodable
    /\ client = Conn /\ storeUp /\ nouts = 0
    /\ cres.prev.op = "set" /\ cres.prev.ok /\ cres.prev.key = cres.key
    /\ cres.key \in DOMAIN db
    /\ db[cres.key].val = Dumps(cres.prev.arg)

(***************************************************************************)
(* C25: an invalidate_base(B) that reached the store has left no entry of  *)
(* base B that it found there (schema, record lists, single records) and   *)
(* has removed no entry of another base.                                   *)
(***************************************************************************)
BaseInvalidated(b) ==
    /\ cres.op = "invalidate" /\ ~cres.fail
    /\ cres.key = <<"*", ":">> \o b \o <<":", "*">>

C25_InvalidateBaseRemovesBase ==
    \A b \in BaseIds :
        BaseInvalidated(b) =>
            /\ (cres.seen \cap BaseKeys(b)) \cap (cres.pre \ cres.removed) = {}
            /\ cres.removed \subseteq BaseKeys(b)

(***************************************************************************)
(* C26: after a web_create_base request has succeeded, all of its store    *)
(* calls having succeeded, the next list_bases request is not answered     *)
(* with the base list from the cache.                                      *)
(***************************************************************************)
BaseCreated(e) ==
    e.rec.h = "web_create_base" /\ e.rec.status = 200 /\ e.rec.reach

C26_CreateBaseInvalidatesBaseList ==
    \A e \in Responses, f \in Responses :
        (/\ BaseCreated(e)
         /\ f.rec.h = "list_bases"
         /\ f.rec.req = e.rec.req + 1)
            => f.rec.source # "cache"

(***************************************************************************)
(* C27: a reset_limits(identifier) that reached the store has deleted the  *)
(* window key of the identifier, has returned the number of keys it        *)
(* deleted, and has left the window of every other identifier as it was,   *)
(* also of an identifier that contains the given one; without client, or   *)
(* when a store call raised, it has returned 0.                            *)
(***************************************************************************)
Resets == {e \in hist : e.rec.kind = "reset"}

C27_ResetDeletesOneIdentifier ==
    \A e \in Resets :
        /\ e.rec.path \in {"nokeys", "deleted"} =>
              /\ RlKey(e.rec.ident) \notin
                    (e.rec.seen \cap (e.rec.pre \ e.rec.removed))
              /\ e.rec.count = Cardinality(e.rec.removed)
              /\ e.rec.removed \subseteq {RlKey(e.rec.ident)}
              /\ e.rec.frame
        /\ e.rec.path \in {"noclient", "store_error"} =>
              (e.rec.count = 0 /\ e.rec.removed = {})

(***************************************************************************)
(* C28: the window key of an identifier is in the store only while at most *)
(* window_seconds have passed since the pipeline of the last check of the  *)
(* identifier, and the pipeline of every check leaves the key with an      *)
(* expiry of window_seconds.                                               *)
(***************************************************************************)
\* the store times of the pipelines of the checks of TheIdent, the last
\* request before the initial state included
PipedAt ==
    {e.rec.piped : e \in {x \in Swc : x.rec.ident = TheIdent /\ x.rec.piped >= 0}}
        \cup {loc[p].piped : p \in {q \in Procs : pc[q] \in {"zrem", "zrange"}}}
        \cup (IF PreCount(preload) > 0 THEN {StartTime - 1} ELSE {})

C28_IdleWindowExpires ==
    /\ RlKey(TheIdent) \in DOMAIN db => \E t \in PipedAt : now <= t + TheWindow
    /\ \A e \in Swc : e.rec.piped >= 0 => e.rec.exp = e.rec.piped + TheWindow

\* a check was allowed, more than window_seconds have passed without
\* another check and the key is gone
C28_Witness ==
    /\ \E e \in Swc : e.rec.path = "allowed" /\ e.rec.piped >= 0
    /\ \A t \in PipedAt : now > t + TheWindow
    /\ \A p \in Procs : pc[p] = "idle"
    /\ RlKey(TheIdent) \notin DOMAIN db

(***************************************************************************)
(* C29: health_check returns, in every connection state, a status that is  *)
(* one of healthy, degraded and error: healthy together with latency_ms,   *)
(* memory_used and connected_clients when the store answered the probe,    *)
(* and degraded together with an error cause when the store did not        *)
(* answer or no client exists.                                             *)
(***************************************************************************)
Healths == {e \in hist : e.rec.kind = "health"}

C29_HealthStatus ==
    /\ \A e \in Healths :
          /\ e.rec.status \in {"healthy", "degraded", "error"}
          /\ e.rec.answered =>
                /\ e.rec.status = "healthy"
                /\ {"latency_ms", "memory_used", "connected_clients"}
                      \subseteq e.rec.keys
          /\ ~e.rec.answered =>
                (e.rec.status = "degraded" /\ "error" \in e.rec.keys)
    /\ \A p \in Procs : pc[p] \in {"idle", "hc_ping", "hc_info"}

(***************************************************************************)
(* C30: create_query_hash returns a string of 12 hexadecimal characters;   *)
(* two calls whose arguments give the four parameters the same values      *)
(* return the same string, in whatever order the call sites give the       *)
(* arguments; and the parameter sets (50, "Grid", None, ["Name"]) and      *)
(* (100, "Grid", None, ["Name"]) return different strings.                 *)
(***************************************************************************)
HashedTwice ==
    cres.op = "create_query_hash" /\ cres.prev.op = "create_query_hash"

ArgSet(call) == {call[i] : i \in 1..Len(call)}

ExampleArgs(max_records) ==
    {<< "max_records", QInt(max_records) >>, << "view", GridView >>,
     << "formula", QNone >>, << "sort", NameSort >>}

IsHex12(h) ==
    /\ Len(h) = 12
    /\ \A i \in 1..Len(h) : \E j \in 1..Len(HexDigits) : h[i] = HexDigits[j]

C30_QueryHashPure ==
    /\ cres.op = "create_query_hash" => IsHex12(cres.key)
    /\ HashedTwice =>
          /\ ArgSet(cres.args) = ArgSet(cres.prev.args)
                => cres.key = cres.prev.key
          /\ (/\ ArgSet(cres.prev.args) = ExampleArgs(50)
              /\ ArgSet(cres.args) = ExampleArgs(100))
                => cres.key # cres.prev.key

C30_Witness ==
    /\ HashedTwice
    /\ cres.args # cres.prev.args
    /\ ArgSet(cres.prev.args) = ExampleArgs(50)
    /\ ArgSet(cres.args) = ExampleArgs(50)

(***************************************************************************)
(* C31: a set replaces the whole entry of its key and starts its expiry at *)
(* the time of the write: the store holds, under a key, the text and the   *)
(* expiry of the set the store executed last on it; and a get that finds   *)
(* the key returns the value of the set executed last before it, read from *)
(* an entry with the expiry of that same set.                              *)
(***************************************************************************)
SetsOn(key) ==
    {e.rec : e \in {f \in hist : f.rec.kind = "set" /\ f.rec.ok
                                   /\ f.rec.key = key}}

\* the sets on key among the first n sets that the store executed last
LastSets(key, n) ==
    {w \in SetsOn(key) :
        w.seq <= n /\ \A x \in SetsOn(key) : x.seq <= n => x.seq <= w.seq}

GetsHit == {e.rec : e \in {f \in hist : f.rec.kind = "get" /\ f.rec.hit}}

C31_SetReplacesEntry ==
    /\ \A key \in DOMAIN db :
          \E w \in LastSets(key, Cardinality(hist)) :
             /\ db[key].type = "string"
             /\ db[key].val = Dumps(w.val)
             /\ db[key].exp = w.at + Secs(w.seconds)
    /\ \A g \in GetsHit :
          \E w \in LastSets(g.key, g.seq) :
             /\ g.val = w.val
             /\ g.exp = w.at + Secs(w.seconds)

\* a get found the key after two sets with different values and expiries
\* had overlapped: the one called first was executed last
C31_Witness ==
    \E g \in GetsHit : \E w \in LastSets(g.key, g.seq) :
        \E x \in SetsOn(g.key) :
            /\ x.seq < w.seq
            /\ x.start >= w.start
            /\ x.at < w.at
            /\ x.val # w.val
            /\ x.at + Secs(x.seconds) > w.at + Secs(w.seconds)

(***************************************************************************)
(* C32: the eviction step of a check removes exactly the recorded          *)
(* timestamps older than now - window_seconds; a timestamp equal to        *)
(* now - window_seconds stays and is counted in current.                   *)
(***************************************************************************)
\* the checks whose pipeline the store has executed
PipedChecks ==
    {e.rec : e \in {f \in hist : f.rec.kind = "swc" /\ f.rec.piped >= 0}}

EvictionBound(r) == r.tnow - Secs(TierWindow(r.tier))

C32_EvictsOlderOnly ==
    \A r \in PipedChecks :
        /\ r.before = {e \in r.held : e[2] >= EvictionBound(r)}
        /\ r.cur = Cardinality({e \in r.held : e[2] >= EvictionBound(r)})

(***************************************************************************)
(* C32, amended: the eviction step removes exactly the recorded timestamps *)
(* not newer than now - window_seconds; a timestamp equal to               *)
(* now - window_seconds is evicted and is not counted in current, and no   *)
(* timestamp newer than that bound is evicted.                             *)
(***************************************************************************)
C32_EvictsNotNewer ==
    \A r \in PipedChecks :
        /\ r.before = {e \in r.held : e[2] > EvictionBound(r)}
        /\ r.cur = Cardinality({e \in r.held : e[2] > EvictionBound(r)})

\* a check found a timestamp at the bound, one older and one newer
C32_Witness ==
    \E r \in PipedChecks :
        /\ \E e \in r.held : e[2] = EvictionBound(r)
        /\ \E e \in r.held : e[2] > EvictionBound(r)
        /\ r.cur < Cardinality(r.held)

(***************************************************************************)
(* C33: once a list_records request and a record mutation on the same      *)
(* table have both completed, the cache holds no record-list entry of that *)
(* table that was computed from upstream data read before the mutation's   *)
(* upstream write.                                                         *)
(***************************************************************************)
UpstreamCalls == {e.rec : e \in {f \in hist : f.rec.kind = "up"}}

\* the upstream call of a request that has made one
UpOf(r) == CHOOSE u \in UpstreamCalls : u.req = r.req

\* the list_records responses whose write-through is the entry the cache
\* holds under their key
WritersOfEntry(base, table) ==
    {e.rec : e \in {f \in Responses :
        /\ f.rec.h = "list_records" /\ f.rec.base = base /\ f.rec.table = table
        /\ f.rec.source = "upstream" /\ f.rec.wrote
        /\ LET key == CacheMakeKey(EntryOf(f.rec).type, EntryOf(f.rec).args)
           IN  /\ key \in DOMAIN db
               /\ db[key].val = Dumps(f.rec.val)
               /\ db[key].exp = f.rec.at + TtlOf(f.rec.h)}}

\* the cache holds an entry of the table that only requests which read
\* upstream before the write of mutation m have written
HoldsPreMutationEntry(m) ==
    /\ WritersOfEntry(m.base, m.table) # {}
    /\ \A r \in WritersOfEntry(m.base, m.table) : UpOf(r).seq < UpOf(m).seq

C33_NoStaleListAfterRace ==
    \A e \in Responses :
        (e.rec.h \in MutateHandlers /\ e.rec.status = 200 /\ e.rec.reach)
            => ~HoldsPreMutationEntry(e.rec)

FromCache(e) == HasCheck(e.rec.h) /\ e.rec.status = 200 /\ e.rec.source = "cache"

C35_CheckBeforeCacheLookup ==
    \A e \in Responses :
        /\ FromCache(e) =>
              /\ e.rec.checked
              /\ e.rec.stamped["global"]
              /\ e.rec.stamped["base"]
        /\ (HasCheck(e.rec.h) /\ e.rec.full # "none") => e.rec.source # "cache"

(***************************************************************************)
(* C36: the client handle is what the last connect() left: absent before   *)
(* the first connect() and after a connect() that failed, whatever the     *)
(* store does afterwards; and an operation that returns while the handle   *)
(* is absent returns absent (get), False (set, delete) or 0                *)
(* (invalidate_pattern) and leaves the store as it was.                    *)
(***************************************************************************)
Connects == {e \in hist : e.rec.kind = "connect"}
LastConnectOk ==
    \E e \in Connects : e.rec.ok /\ \A f \in Connects : f.rec.seq <= e.rec.seq

C36_ClientOnlyFromConnect ==
    /\ client # None <=> LastConnectOk
    /\ (cres.op # "none" /\ cres.conn = None) =>
          /\ cres.val = PyNone /\ ~cres.hit
          /\ ~cres.ok
          /\ cres.count = 0
          /\ ~cres.changed

\* reached: connect() failed, the store came back, and a get of a key the
\* store holds returned absent
C36_Witness ==
    /\ \E e \in Connects : ~e.rec.ok
    /\ client = None /\ storeUp
    /\ cres.op = "get" /\ cres.conn = None /\ cres.up
    /\ cres.key \in cres.seen
    /\ cres.val = PyNone

(***************************************************************************)
(* C37: a step of delete or invalidate_pattern creates, changes or removes *)
(* only keys that begin with the cache namespace "airtable:", and a step   *)
(* of _sliding_window_check or reset_limits only keys that begin with      *)
(* "airtable_rate_limit:"; no key begins with both.                        *)
(***************************************************************************)
IsCacheKey(k) == Len(k) >= 2 /\ SubSeq(k, 1, 2) = <<"airtable", ":">>
IsWindowKey(k) ==
    Len(k) > Len(Prefix) /\ SubSeq(k, 1, Len(Prefix) + 1) = Prefix \o <<":">>

Touched ==
    {k \in DOMAIN db \cup DOMAIN db' :
        k \notin DOMAIN db \/ k \notin DOMAIN db' \/ db[k] # db'[k]}

LimiterStep ==
    \E p \in Procs : pc[p] \in {"pipe", "zrem", "zrange", "r_del"} /\ pc'[p] # pc[p]

C37_DisjointKeyspaces ==
    [][IF LimiterStep
       THEN \A k \in Touched : IsWindowKey(k) /\ ~IsCacheKey(k)
       ELSE \A k \in Touched : IsCacheKey(k) /\ ~IsWindowKey(k)]_vars

\* reached: an invalidate_pattern removed entries of a store that held a
\* window, and a reset_limits removed a window of a store that held entries
C37_Witness ==
    /\ cres.op = "invalidate" /\ cres.removed # {}
    /\ \E k \in cres.pre : IsWindowKey(k)
    /\ \E e \in hist : /\ e.rec.kind = "reset"
                       /\ e.rec.removed # {}
                       /\ \E k \in e.rec.pre : IsCacheKey(k)

====
